---- MODULE Spec2Model ----
(***************************************************************************)
(* A model of the roll synchronization engine of ddb-sync: the message     *)
(* deduplicator, the two first-match dispatchers, the dice roll message    *)
(* handler with its subscriptions, cache and processing guard, and the     *)
(* remote (ddb) branch of the roll evaluation override with its dialog.    *)
(*                                                                         *)
(* JavaScript runs the code of one task to its next await without          *)
(* interleaving, so every action below is one such synchronous run: from   *)
(* an event (a socket message, a click, a timer, a promise settling) to    *)
(* the next suspension point.                                              *)
(***************************************************************************)
EXTENDS Integers, Sequences, FiniteSets, TLC

VARIABLES
  processedMessageIds,   \* MessageDeduplicator.processedMessageIds, in insertion order
  deliveries,            \* one record per call of handleDDBMessage, in arrival order
  pendingRollCallbacks,  \* DiceRollMessageHandler.pendingRollCallbacks
  cachedRolls,           \* DiceRollMessageHandler.cachedRolls
  cacheTimers,           \* pending 30 s expiry timeouts, per cache key
  processingRolls,       \* DiceRollMessageHandler.processingRolls
  guardTimers,           \* pending 5 s timeouts that clear the processing flag
  evals,                 \* the roll evaluations and their dialogs
  nextSubId,             \* the next fresh subscription id (foundry.utils.randomID)
  extCount,              \* subscriptions made by other callers of subscribe()
  handlers,              \* the handler list of a dispatcher under test
  lastDispatch,          \* the outcome of the last dispatch on that list
  marks,                 \* markProcessed calls so far (history of the deduplicator)
  now,                   \* Date.now(), in milliseconds
  timerDue,              \* the times the expiry timeouts of a cache key are due
  cacheLog,              \* the entries cached so far: key, roll, time, retrievals
  transport,             \* a DDBWebSocket, its sockets, timers and events
  subst,                 \* a roll that is built, evaluated and substituted
  override,              \* a call of RollEvaluationOverride._handleEvaluate
  parse,                 \* a payload, its parsed formula and the roll made of it
  wire                   \* the last frame a socket delivered and what onMessage did

vars == <<processedMessageIds, deliveries, pendingRollCallbacks, cachedRolls,
          cacheTimers, processingRolls, guardTimers, evals, nextSubId, extCount,
          handlers, lastDispatch, marks, now, timerDue, cacheLog, transport,
          subst, override, parse, wire>>

(***************************************************************************)
(* Bounds of the model.                                                    *)
(***************************************************************************)
MaxMsgs == 2
MaxEvals == 2
MaxExtSubs == 1
MaxSubsEvals == 1
MaxStreamIds == 52     \* message ids of the long stream (SpecMsg)
MaxAwaited == 1        \* ids of the stream whose handler awaits
MaxRedeliver == 2      \* redeliveries in the stream
MaxKeys == 52          \* keys marked in the deduplicator (SpecDedup)
MaxRemarks == 2        \* markProcessed calls on a key marked before
MaxHandlers == 3       \* handlers registered with a dispatcher (SpecDispatch)
MaxCalls == 2          \* calls of handleDDBMessage and handleRoll (SpecContract)
MaxFrames == 2         \* frames delivered to onMessage (SpecWire)
MaxWireSockets == 2    \* sockets created by the transport (SpecWire)
MaxCached == 3         \* _cacheRoll calls (SpecCache)
MaxTime == 70000       \* the clock stops here (SpecCache)
MaxSockets == 7        \* sockets a transport creates (SpecTransport)
MaxConnects == 2       \* explicit connect() calls on a transport
MaxGroupLen == 2       \* values in an external group (SpecSubst)
MaxGroups == 2         \* groups in an external roll (SpecSubst)
MaxSetDice == 2        \* dice of a die set of a payload (SpecFormula)
MaxSets == 2           \* die sets of a payload (SpecFormula)

\* JavaScript's falsy values: no entity id, no action or roll type.
NoEntity == 0
NoText == ""

(***************************************************************************)
(* The inputs: remote character ids, action names, dice, roll types.      *)
(***************************************************************************)
EntityIds == {42, 43}
MappedEntities == {42}
Actions == {"Fireball"}
ItemNames == {"fireball"}
ToLowerCase(s) ==
  IF s = "Fireball" THEN "fireball" ELSE IF s = "Advantage" THEN "advantage" ELSE s
\* the ddbCharacterId flag of the evaluating actors
CharacterFlags == {42}
MessageIds == {1, 2}
RollIds == {7}
RollTypes == {"to hit", "check", NoText}
DieTypes == {"d20", "d6"}

D20 == <<[dieType |-> "d20", results |-> <<14>>]>>
TwoD6 == <<[dieType |-> "d6", results |-> <<3, 5>>]>>
DiceSets == {D20}

TermD20 == <<[faces |-> 20, number |-> 1]>>
TermTwoD6 == <<[faces |-> 6, number |-> 2]>>
TermSets == {TermD20, TermTwoD6}

RollEvent == "dice/roll/fulfilled"
DamageEvent == "character-sheet/character-update/fulfilled"
UpdateEvent == "character-sheet/character-update"

\* The details the transport emits with its `message` event.
\* id is the id of the envelope (the key of the deduplicator), rollId the
\* id inside the roll data (the key of the processing guard).
RollMessages ==
  [eventType : {RollEvent}, id : MessageIds, rollId : RollIds, entityId : EntityIds,
   action : Actions, rollType : RollTypes, dice : DiceSets]
OtherMessages ==
  [eventType : {DamageEvent, UpdateEvent}, id : MessageIds, rollId : {0},
   entityId : {NoEntity}, action : {NoText}, rollType : {NoText}, dice : {<<>>}]
Messages == RollMessages \cup OtherMessages

\* The rolls delivered to the bridge: a roll of an entity without an actor
\* is dropped whatever its type, so one type stands for all of them.
BridgeRolls ==
  {m \in RollMessages : m.entityId \in MappedEntities \/ m.rollType = "to hit"}

(***************************************************************************)
(* MessageDeduplicator.                                                    *)
(***************************************************************************)
maxHistorySize == 50

\* a test that counts a key only once its dispatch has returned normally
IsProcessedSettled(history, messageKey) ==
  /\ \E i \in 1..Len(history) : history[i] = messageKey
  /\ \A n \in 1..Len(deliveries) :
       (/\ <<"unknown", deliveries[n].message.eventType,
              deliveries[n].message.id>> = messageKey
        /\ ~deliveries[n].duplicate)
       => deliveries[n].pc = "done" /\ deliveries[n].outcome # "throw"

IsProcessed(history, messageKey) ==
  \E i \in 1..Len(history) : history[i] = messageKey

\* A Set keeps insertion order; the oldest id is the first one.
CleanupOldMessages(history) ==
  IF Len(history) > maxHistorySize THEN Tail(history) ELSE history

\* a history that puts the newest id first
MarkProcessedFront(history, messageKey) ==
  IF \E i \in 1..Len(history) : history[i] = messageKey THEN history
  ELSE IF Len(history) >= maxHistorySize
       THEN <<messageKey>> \o SubSeq(history, 1, maxHistorySize - 1)
       ELSE <<messageKey>> \o history

\* a history that records nothing
MarkProcessedNothing(history, messageKey) == history

\* a history that moves an id marked again to the newest place (LRU)
MarkProcessedRefresh(history, messageKey) ==
  LET rest == SelectSeq(history, LAMBDA k : k # messageKey)
      all == Append(rest, messageKey)
  IN IF Len(all) > maxHistorySize THEN Tail(all) ELSE all

\* Set.add of an id already present changes nothing, its position included.
MarkProcessed(history, messageKey) ==
  CleanupOldMessages(IF IsProcessed(history, messageKey)
                     THEN history
                     ELSE Append(history, messageKey))

\* DDBSyncManager.createMessageKey: the details of this model carry no
\* character object, so the character id of the key is 'unknown'.
CreateMessageKey(message) == <<"unknown", message.eventType, message.id>>

(***************************************************************************)
(* First-match dispatch, shared by MessageDispatcher and                   *)
(* RollStrategyDispatcher: the index of the first handler whose canHandle  *)
(* returns true, 0 when there is none.  matches[i] is canHandle of the     *)
(* i-th registered handler on the event.                                   *)
(***************************************************************************)
RECURSIVE FirstFrom(_, _)
FirstFrom(matches, i) ==
  IF i > Len(matches) THEN 0
  ELSE IF matches[i] THEN i
  ELSE FirstFrom(matches, i + 1)

FirstMatch(matches) == FirstFrom(matches, 1)

\* DDBSyncManager.registerHandlers: the damage handler, then the roll handler.
MessageHandlers == <<"DamageMessageHandler", "DiceRollMessageHandler">>

MessageCanHandle(name, message) ==
  IF name = "DamageMessageHandler" THEN message.eventType = DamageEvent
  ELSE message.eventType = RollEvent

\* DDBSyncManager.registerRollHandlers: the generic handler comes last.
RollHandlers == <<"InitiativeRollHandler", "SaveRollHandler", "AttackRollHandler",
                  "AbilityCheckRollHandler", "GenericRollHandler">>

RollCanHandle(name, rollData) ==
  CASE name = "InitiativeRollHandler" ->
         ToLowerCase(IF rollData.action # NoText THEN rollData.action
                     ELSE rollData.rollType) = "initiative"
    [] name = "SaveRollHandler" -> ToLowerCase(rollData.rollType) = "save"
    [] name = "AttackRollHandler" -> ToLowerCase(rollData.rollType) = "to hit"
    [] name = "AbilityCheckRollHandler" -> ToLowerCase(rollData.rollType) = "check"
    [] OTHER -> TRUE

UsesCache(name) == name = "AttackRollHandler"

(***************************************************************************)
(* DiceExtractor.extractDiceResults and the dialog's signature check.      *)
(***************************************************************************)
ExtractDiceResults(rollData) == rollData.dice

DieTypeOf(term) == IF term.faces = 20 THEN "d20" ELSE "d6"

RECURSIVE SumOver(_, _, _)
\* the sum of count(s[i]) over the entries of s whose key is k
SumOver(s, k, i) ==
  IF i > Len(s) THEN 0
  ELSE (IF s[i].key = k THEN s[i].count ELSE 0) + SumOver(s, k, i + 1)

ExpectedDice(diceTerms) ==
  [i \in 1..Len(diceTerms) |->
     [key |-> DieTypeOf(diceTerms[i]), count |-> diceTerms[i].number]]

ActualDice(extractedResults) ==
  [i \in 1..Len(extractedResults) |->
     [key |-> extractedResults[i].dieType, count |-> Len(extractedResults[i].results)]]

KeysOf(s) == {s[i].key : i \in 1..Len(s)}

DoesRollMatchExpected(rollData, diceTerms) ==
  LET extractedResults == ExtractDiceResults(rollData)
      expected == ExpectedDice(diceTerms)
      actual == ActualDice(extractedResults)
  IN  /\ Len(extractedResults) # 0
      /\ Cardinality(KeysOf(expected)) = Cardinality(KeysOf(actual))
      /\ \A k \in KeysOf(expected) :
            /\ k \in KeysOf(actual)
            /\ SumOver(expected, k, 1) = SumOver(actual, k, 1)

(***************************************************************************)
(* DiceRollMessageHandler: subscriptions, cache, processing guard.         *)
(***************************************************************************)
CacheKeys == EntityIds \X {ToLowerCase(a) : a \in Actions}

\* `${entityId}-${action.toLowerCase()}`
CacheKey(entityId, action) == <<entityId, ToLowerCase(action)>>

\* `${entityId}-${action}-${rollData.rollId}`
RollKey(rollData) == <<rollData.entityId, rollData.action, rollData.rollId>>

\* a _cacheRoll that stores nothing
CacheRollNothing(cache, entityId, action, rollData) == cache

\* _cacheRoll: Map.set replaces the entry of the key and starts one more timer.
CacheRoll(cache, entityId, action, rollData) ==
  [cache EXCEPT ![CacheKey(entityId, action)] = <<rollData>>]

HasCachedRoll(cache, entityId, action) ==
  cache[CacheKey(entityId, action)] # <<>>

\* a lookup that leaves the entry in the cache
GetCachedRollKeep(cache, entityId, action) == cache

\* getCachedRoll: the cache after the call (the entry, if any, is deleted).
GetCachedRoll(cache, entityId, action) ==
  [cache EXCEPT ![CacheKey(entityId, action)] = <<>>]

\* subscribe: push onto the list.
Subscribe(callbacks, cb) == Append(callbacks, cb)

\* unsubscribe: findIndex by id, splice; nothing happens for an unknown id.
Unsubscribe(callbacks, subscriptionId) ==
  SelectSeq(callbacks, LAMBDA cb : cb.id # subscriptionId)

IsPending(callbacks, subscriptionId) ==
  \E i \in 1..Len(callbacks) : callbacks[i].id = subscriptionId

\* a lookup that finds an actor for every entity
FindActorAny(ddbCharacterId) == ddbCharacterId # NoEntity

\* _findActorByDDBId through CharacterMapper.getFoundryActor
FindActorByDDBId(ddbCharacterId) ==
  ddbCharacterId # NoEntity /\ ddbCharacterId \in MappedEntities

(***************************************************************************)
(* The handler a dialog subscribes (DiceInputDialog._setupDDBRollListener):*)
(* true when the roll is for the dialog's character and carries the dice   *)
(* of the dialog's terms, both held by the handler's closure (cb).         *)
(***************************************************************************)
DialogHandlerResult(cb, rollData) ==
  IF /\ cb.ddbCharacterId # NoEntity
     /\ rollData.entityId # NoEntity
     /\ cb.ddbCharacterId # rollData.entityId
  THEN FALSE
  ELSE DoesRollMatchExpected(rollData, cb.diceTerms)

\* What the handler of subscription cb returns on the roll: "true", "false"
\* or "throw" (a handler given by another caller of subscribe may do any).
CallbackResult(cb, rollData) ==
  IF cb.kind = "dialog"
  THEN (IF DialogHandlerResult(cb, rollData) THEN "true" ELSE "false")
  ELSE cb.beh

\* The handler's effect on the dialogs: a consuming dialog handler fills the
\* form with the roll's values and enables the roll button (of a dialog
\* already closed nothing is left to enable).
CallbackEffect(cb, evs, rollData) ==
  IF cb.kind = "dialog" /\ DialogHandlerResult(cb, rollData)
     /\ evs[cb.owner].st \in {"waiting", "ready"}
  THEN [evs EXCEPT ![cb.owner].st = "ready", ![cb.owner].filled = <<rollData>>]
  ELSE evs

(***************************************************************************)
(* DiceRollMessageHandler.handle from the fall-through test on: the roll   *)
(* goes to DiceRollHandler.handleRoll unless a subscriber consumed it, it  *)
(* has no roll type, its entity has no actor or its key is being processed.*)
(* st is the handler's state: [d, evs, cache, timers, processing].         *)
(***************************************************************************)
ForwardRoll(st) ==
  LET rollData == st.d.message
      h == FirstMatch([i \in 1..Len(RollHandlers) |->
                         RollCanHandle(RollHandlers[i], rollData)])
      key == CacheKey(rollData.entityId, rollData.action)
  IN
  IF rollData.rollType = NoText \/ ~FindActorByDDBId(rollData.entityId)
    THEN [st EXCEPT !.d.pc = "done"]
  ELSE IF RollKey(rollData) \in st.processing
    THEN [st EXCEPT !.d.pc = "done", !.d.guarded = TRUE]
  ELSE LET uses == h # 0 /\ UsesCache(RollHandlers[h])
       IN [st EXCEPT
             !.d.pc = "awaitHandler", !.d.routed = TRUE,
             !.d.rollHandler = IF h = 0 THEN NoText ELSE RollHandlers[h],
             !.d.cached = uses,
             !.processing = @ \cup {RollKey(rollData)},
             !.cache = IF uses
                       THEN CacheRoll(@, rollData.entityId, rollData.action, rollData)
                       ELSE @,
             !.timers[key] = IF uses THEN @ + 1 ELSE @]

\* a fall-through test that forgets the consumed flag
FallThroughConsumed(st) == ForwardRoll(st)

FallThrough(st) ==
  IF st.d.consumed THEN [st EXCEPT !.d.pc = "done"] ELSE ForwardRoll(st)

\* a loop that stops offering the roll once a handler has consumed it
NotifyUntilConsumed(st) ==
  IF st.d.idx <= Len(st.d.callbacks) /\ ~st.d.consumed
  THEN LET cb == st.d.callbacks[st.d.idx]
           res == CallbackResult(cb, st.d.message)
       IN [st EXCEPT !.d.pc = "awaitCallback", !.d.res = res,
                     !.d.invoked = Append(@, [id |-> cb.id, result |-> res]),
                     !.evs = CallbackEffect(cb, st.evs, st.d.message)]
  ELSE FallThrough(st)

(***************************************************************************)
(* The loop of handle over its snapshot of the subscriptions, from index   *)
(* st.d.idx: the next handler is called and its result awaited; past the   *)
(* last one the fall-through test runs.                                    *)
(***************************************************************************)
NotifyFrom(st) ==
  IF st.d.idx <= Len(st.d.callbacks)
  THEN LET cb == st.d.callbacks[st.d.idx]
           res == CallbackResult(cb, st.d.message)
       IN [st EXCEPT !.d.pc = "awaitCallback", !.d.res = res,
                     !.d.invoked = Append(@, [id |-> cb.id, result |-> res]),
                     !.evs = CallbackEffect(cb, st.evs, st.d.message)]
  ELSE FallThrough(st)

(***************************************************************************)
(* DDBWebSocket.  ws is what this.ws refers to: nothing ("null"), a socket *)
(* connecting or open, or a socket that has closed.  A socket keeps its    *)
(* onopen/onclose handlers when this.ws no longer refers to it: orphan*    *)
(* count the live sockets replaced by a later connect(), closing* the      *)
(* sockets on which disconnect() called close(1000) and whose close event  *)
(* is still to come.  fetch* count the connect() calls awaiting            *)
(* fetchAccessToken, by who called connect().  The other fields record     *)
(* what has happened: sockets created, explicit connect() calls, whether   *)
(* disconnect() was the last explicit call (stopped) and whether a socket  *)
(* or timer was made since (strayed), the terminal reports since the last  *)
(* open, the cookieExpired events, and how the last attempt ended.         *)
(***************************************************************************)
maxReconnectAttempts == 5
reconnectDelay == 3000

\* delay: the delay of the timeout set last; scheduled: the timeouts set
\* since the last onOpen
NewTransport ==
  [ws |-> "null", orphanConnecting |-> 0, orphanOpen |-> 0,
   closingConnecting |-> 0, closingOpen |-> 0,
   fetchExplicit |-> 0, fetchTimer |-> 0,
   reconnectAttempts |-> 0, timers |-> 0, delay |-> 0, scheduled |-> 0,
   created |-> 0, connects |-> 0, stopped |-> FALSE, strayed |-> FALSE,
   terminal |-> 0, cookieExpired |-> 0,
   lastEnd |-> [kind |-> "none", origin |-> "none", retried |-> FALSE]]

\* a reconnect after the same delay every time
ScheduleReconnectFlat(t) ==
  IF t.reconnectAttempts >= maxReconnectAttempts
  THEN [t EXCEPT !.terminal = @ + 1]
  ELSE [t EXCEPT !.reconnectAttempts = @ + 1, !.timers = @ + 1,
                 !.delay = reconnectDelay, !.scheduled = @ + 1,
                 !.strayed = @ \/ t.stopped]

\* scheduleReconnect()
ScheduleReconnect(t) ==
  IF t.reconnectAttempts >= maxReconnectAttempts
  THEN [t EXCEPT !.terminal = @ + 1]
  ELSE [t EXCEPT !.reconnectAttempts = @ + 1, !.timers = @ + 1,
                 !.delay = reconnectDelay * (t.reconnectAttempts + 1),
                 !.scheduled = @ + 1,
                 !.strayed = @ \/ t.stopped]

\* this.ws = new WebSocket(wsUrl): the socket this.ws referred to is not closed
NewWebSocket(t) ==
  [t EXCEPT !.ws = "connecting", !.created = @ + 1,
            !.orphanConnecting = IF t.ws = "connecting" THEN @ + 1 ELSE @,
            !.orphanOpen = IF t.ws = "open" THEN @ + 1 ELSE @,
            !.strayed = @ \/ t.stopped]

\* disconnect(): close(1000) on the socket of this.ws, if any; no timer is cleared
DisconnectTransport(t) ==
  [t EXCEPT !.ws = "null",
            !.closingConnecting = IF t.ws = "connecting" THEN @ + 1 ELSE @,
            !.closingOpen = IF t.ws = "open" THEN @ + 1 ELSE @]

\* connect() up to its await of fetchAccessToken
ConnectStarted(t, origin) ==
  IF origin = "explicit" THEN [t EXCEPT !.fetchExplicit = @ + 1]
  ELSE [t EXCEPT !.fetchTimer = @ + 1]

\* an authentication failure that is retried like another failure
AuthFailedRetry(t, managed) == ScheduleReconnect([t EXCEPT !.cookieExpired = @ + 1])

\* fetchAccessToken on 401/403: the cookieExpired event (with its listener
\* run inside dispatchEvent), null returned, connect() returns
AuthFailed(t, managed) ==
  LET v == [t EXCEPT !.cookieExpired = @ + 1]
  IN IF managed THEN [DisconnectTransport(v) EXCEPT !.stopped = TRUE] ELSE v

Ended(t, kind, origin, retried) ==
  [t EXCEPT !.lastEnd = [kind |-> kind, origin |-> origin, retried |-> retried]]

\* connect() from the return of fetchAccessToken on.  outcome: the
\* exchange gave a token ("token", and "throw" when new WebSocket then
\* throws), failed with 401/403 ("auth"), with another status ("status"),
\* with a network error ("network"), or answered without a token
\* ("notoken").  managed: DDBSyncManager.handleCookieExpired listens and
\* calls disconnect().
ConnectResumed(t, origin, outcome, managed) ==
  LET u == IF origin = "explicit" THEN [t EXCEPT !.fetchExplicit = @ - 1]
           ELSE [t EXCEPT !.fetchTimer = @ - 1]
  IN
  CASE outcome = "token" -> Ended(NewWebSocket(u), "socketCreated", origin, FALSE)
    [] outcome = "throw" -> Ended(ScheduleReconnect(u), "createFailure", origin, TRUE)
    [] outcome = "auth" -> Ended(AuthFailed(u, managed), "authFailure", origin, FALSE)
    [] OTHER -> Ended(u, "tokenFailure", origin, FALSE)

\* no frame delivered yet
NoFrame ==
  [calls |-> 0, on |-> "none", frame |-> [json |-> "none"], emitted |-> <<>>,
   sent |-> 0, caught |-> FALSE]

(***************************************************************************)
(* Rolls and the substitution of external dice results.  A term is a die  *)
(* term (faces, keep modifier, one result per die) or another term         *)
(* (operator, number); a result carries its value, whether it counts       *)
(* towards the total, and the position it was rolled at.                   *)
(***************************************************************************)
DieTerm(number, faces, keep) ==
  [kind |-> "die", number |-> number, faces |-> faces, keep |-> keep, results |-> <<>>]
OperatorTerm ==
  [kind |-> "operator", number |-> 0, faces |-> 0, keep |-> "none", results |-> <<>>]
NumericTerm ==
  [kind |-> "numeric", number |-> 5, faces |-> 0, keep |-> "none", results |-> <<>>]

RECURSIVE InsertValue(_, _)
InsertValue(s, x) ==
  IF s = <<>> THEN <<x>>
  ELSE IF s[Len(s)] <= x THEN Append(s, x)
  ELSE Append(InsertValue(SubSeq(s, 1, Len(s) - 1), x), s[Len(s)])

\* results.sort((a, b) => a - b): ascending, stable
RECURSIVE SortValues(_)
SortValues(s) ==
  IF s = <<>> THEN s
  ELSE InsertValue(SortValues(SubSeq(s, 1, Len(s) - 1)), s[Len(s)])

RECURSIVE InsertResult(_, _)
InsertResult(s, r) ==
  IF s = <<>> THEN <<r>>
  ELSE IF s[Len(s)].result <= r.result THEN Append(s, r)
  ELSE Append(InsertResult(SubSeq(s, 1, Len(s) - 1), r), s[Len(s)])

\* term.results.sort((a, b) => a.result - b.result): ascending, stable
RECURSIVE SortResults(_)
SortResults(s) ==
  IF s = <<>> THEN s
  ELSE InsertResult(SortResults(SubSeq(s, 1, Len(s) - 1)), s[Len(s)])

\* the values of a sequence of results
ResultValues(results) == [i \in 1..Len(results) |-> results[i].result]

RECURSIVE SumValues(_)
SumValues(s) == IF s = <<>> THEN 0 ELSE s[1] + SumValues(Tail(s))

\* roll.evaluate() on a die term whose dice came up `values`: with kh1 (kl1)
\* every result but one highest (lowest) is discarded, and of equal results
\* the ones rolled first are discarded first
EvaluateTerm(term, values) ==
  LET n == Len(values)
      sorted == SortValues(values)
      cut == IF term.keep = "kh" THEN sorted[n] ELSE sorted[1]
      lastCut == CHOOSE i \in 1..n :
                   values[i] = cut /\ \A j \in (i + 1)..n : values[j] # cut
  IN [term EXCEPT !.results =
        [i \in 1..n |-> [result |-> values[i], die |-> i,
                         active |-> term.keep = "none" \/ i = lastCut]]]

\* the outcomes of a die term that count towards the total
ActiveValues(term) ==
  LET act == {i \in 1..Len(term.results) : term.results[i].active}
      RECURSIVE Pick(_)
      Pick(i) == IF i > Len(term.results) THEN <<>>
                 ELSE IF i \in act THEN <<term.results[i].result>> \o Pick(i + 1)
                 ELSE Pick(i + 1)
  IN Pick(1)

\* what a die term contributes to roll._evaluateTotal()
TermTotal(term) == SumValues(ActiveValues(term))

\* a substitution that takes the values over as they are
OverwriteAll(results, values) ==
  [i \in 1..Len(values) |-> [result |-> values[i], die |-> i, active |-> TRUE]]

\* the inner loop: term.results[i].result = ddbDice.results[i] up to the
\* shorter length, on the sorted results and the sorted values
Overwrite(results, values) ==
  [i \in 1..Len(results) |->
     IF i <= Len(values) THEN [results[i] EXCEPT !.result = values[i]] ELSE results[i]]

\* substituteDDBResults(roll, ddbDiceResults) from the term at position
\* `at`, with diceIndex groups used so far: the terms, the groups (sorted
\* in place) and whether a TypeError ended the loop
RECURSIVE SubstituteFrom(_, _, _, _)
SubstituteFrom(terms, groups, at, diceIndex) ==
  IF at > Len(terms) THEN [terms |-> terms, groups |-> groups, threw |-> FALSE]
  ELSE IF terms[at].kind # "die" THEN SubstituteFrom(terms, groups, at + 1, diceIndex)
  ELSE IF diceIndex + 1 > Len(groups)
       THEN [terms |-> terms, groups |-> groups, threw |-> TRUE]
  ELSE LET values == SortValues(groups[diceIndex + 1])
           results == SortResults(terms[at].results)
       IN SubstituteFrom(
            [terms EXCEPT ![at].results = Overwrite(results, values)],
            [groups EXCEPT ![diceIndex + 1] = values], at + 1, diceIndex + 1)

SubstituteDDBResults(terms, groups) == SubstituteFrom(terms, groups, 1, 0)

\* roll._evaluateTotal(): the dice that count and the numbers, added up
RECURSIVE RollTotal(_)
RollTotal(terms) ==
  IF terms = <<>> THEN 0
  ELSE RollTotal(Tail(terms)) +
       (IF terms[1].kind = "die" THEN TermTotal(terms[1])
        ELSE IF terms[1].kind = "numeric" THEN terms[1].number ELSE 0)

\* a total that is left as the local evaluation computed it
StaleTotal(terms, total) == total

\* roll._total = roll._evaluateTotal() after a substitution
EvaluateTotal(terms, total) == RollTotal(terms)

NoRoll ==
  [phase |-> "none", local |-> <<>>, terms |-> <<>>, given |-> <<>>,
   groups |-> <<>>, threw |-> FALSE, total |-> 0]

\* the actor sits in front of Roll.prototype.evaluate whatever its flag says
DiceModeOfFlag(actorType, diceMode) ==
  IF diceMode = "unset" THEN "normal" ELSE diceMode

\* the mode _handleEvaluate works in: normal without a character actor,
\* else actor.getFlag('ddb-sync', 'diceMode') || 'normal'
DiceModeOf(actorType, diceMode) ==
  IF actorType # "character" THEN "normal"
  ELSE IF diceMode = "unset" THEN "normal" ELSE diceMode

\* a prompt whose answer is always taken for results
ResultsAlways(answered) == TRUE

\* if (manualResults) / if (ddbResults)
HasResults(answered) == answered = "results"

(***************************************************************************)
(* Formulas as text: a formula is the sequence of its characters.          *)
(***************************************************************************)
DigitChars == <<"0", "1", "2", "3", "4", "5", "6", "7", "8", "9">>

\* `${n}` for a natural number
RECURSIVE Digits(_)
Digits(n) ==
  IF n < 10 THEN <<DigitChars[n + 1]>>
  ELSE Digits(n \div 10) \o <<DigitChars[(n % 10) + 1]>>

\* `${n}` for an integer
NumberText(n) == IF n < 0 THEN <<"-">> \o Digits(0 - n) ELSE Digits(n)

\* the characters of a die type
DieTypeChars(dieType) ==
  IF dieType = "d20" THEN <<"d", "2", "0">> ELSE <<"d", "6">>

KeepChars(modifier) ==
  IF modifier = "kh1" THEN <<"k", "h", "1">>
  ELSE IF modifier = "kl1" THEN <<"k", "l", "1">> ELSE <<>>

\* a keep modifier given to the sets of every die type
KeepModifierAnyDie(dieType, count, isAdvantage, isDisadvantage) ==
  IF count > 1
  THEN (IF isAdvantage THEN "kh1" ELSE IF isDisadvantage THEN "kl1" ELSE NoText)
  ELSE NoText

\* the keep modifier of a set: for d20 sets of more than one die only
KeepModifier(dieType, count, isAdvantage, isDisadvantage) ==
  IF dieType = "d20" /\ count > 1
  THEN (IF isAdvantage THEN "kh1" ELSE IF isDisadvantage THEN "kl1" ELSE NoText)
  ELSE NoText

\* a payload without result.values
NoValues == -1

\* dieSet.dice?.length || dieSet.count || 1, and for a d20 set
\* roll.result.values.length when the roll has result.values
SetCount(dieSet, values) ==
  LET own == IF dieSet.dice # 0 THEN dieSet.dice
             ELSE IF dieSet.count # 0 THEN dieSet.count ELSE 1
      dieType == IF dieSet.dieType = NoText THEN "d6" ELSE dieSet.dieType
  IN IF dieType = "d20" /\ values # NoValues THEN values ELSE own

\* the entry of result.terms for a set
SetTerm(dieSet, values, isAdvantage, isDisadvantage) ==
  LET dieType == IF dieSet.dieType = NoText THEN "d6" ELSE dieSet.dieType
      count == SetCount(dieSet, values)
  IN [count |-> count, dieType |-> dieType,
      modifier |-> KeepModifier(dieType, count, isAdvantage, isDisadvantage)]

\* `${count}${dieType}` and the keep modifier
TermChars(term) ==
  Digits(term.count) \o DieTypeChars(term.dieType) \o KeepChars(term.modifier)

RECURSIVE JoinChars(_)
JoinChars(parts) ==
  IF parts = <<>> THEN <<>> ELSE parts[1] \o JoinChars(Tail(parts))

\* the signed suffix: `+${constant}` from 0 up, `${constant}` below
SuffixChars(constant) ==
  IF constant >= 0 THEN <<"+">> \o NumberText(constant) ELSE NumberText(constant)

\* modifier || roll.diceNotation?.constant || 0
ConstantOf(modifier, constant) ==
  IF modifier # 0 THEN modifier ELSE constant

EmptyResult ==
  [formula |-> <<>>, rollKind |-> NoText, isAdvantage |-> FALSE,
   isDisadvantage |-> FALSE, terms |-> <<>>]

\* DiceExtractor.parseDiceFormula(rollData, modifier)
ParseDiceFormula(rollData, modifier) ==
  IF ~rollData.rolls THEN EmptyResult
  ELSE LET adv == ToLowerCase(rollData.rollKind) = "advantage"
           dis == ToLowerCase(rollData.rollKind) = "disadvantage"
           kinded == [EmptyResult EXCEPT !.rollKind = rollData.rollKind,
                                         !.isAdvantage = adv, !.isDisadvantage = dis]
           terms == [i \in 1..Len(rollData.set) |->
                       SetTerm(rollData.set[i], rollData.values, adv, dis)]
           parts == [i \in 1..Len(terms) |-> TermChars(terms[i])]
       IN IF ~rollData.diceNotation THEN kinded
          ELSE [kinded EXCEPT
                  !.terms = terms,
                  !.formula = JoinChars(parts) \o
                              SuffixChars(ConstantOf(modifier, rollData.constant))]

\* DiceExtractor.extractDiceResults(rollData): one group for every set that
\* carries a dice array (dice = 0 is a set without one), with the set's own
\* dieType and one result for every die of the array
RECURSIVE ExtractSetGroups(_)
ExtractSetGroups(set) ==
  IF set = <<>> THEN <<>>
  ELSE (IF set[1].dice # 0
        THEN <<[dieType |-> set[1].dieType, count |-> set[1].count,
                results |-> set[1].dice]>>
        ELSE <<>>) \o ExtractSetGroups(Tail(set))

ExtractDiceGroups(rollData) ==
  IF ~rollData.rolls \/ ~rollData.diceNotation THEN <<>>
  ELSE ExtractSetGroups(rollData.set)

(***************************************************************************)
(* new Roll(formula): the evaluator splits the text at its operators; an   *)
(* operand is a number, or a die term: an optional number, "d", the        *)
(* longest run of digits as faces and the rest of the operand as the       *)
(* term's modifiers.                                                       *)
(***************************************************************************)
IsDigit(c) == \E n \in 1..Len(DigitChars) : DigitChars[n] = c

RECURSIVE TakeDigits(_)
TakeDigits(chars) ==
  IF chars = <<>> \/ ~IsDigit(chars[1]) THEN <<>>
  ELSE <<chars[1]>> \o TakeDigits(Tail(chars))

DigitValue(c) == (CHOOSE n \in 1..Len(DigitChars) : DigitChars[n] = c) - 1

RECURSIVE NumberOf(_)
NumberOf(digits) ==
  IF digits = <<>> THEN 0
  ELSE NumberOf(SubSeq(digits, 1, Len(digits) - 1)) * 10 + DigitValue(digits[Len(digits)])

Rest(chars, n) == SubSeq(chars, n + 1, Len(chars))

IsOperator(c) == c \in {"+", "-"}

\* the operands and operators of a formula, in order
RECURSIVE Tokens(_, _)
Tokens(chars, operand) ==
  IF chars = <<>> THEN (IF operand = <<>> THEN <<>> ELSE <<operand>>)
  ELSE IF IsOperator(chars[1])
       THEN (IF operand = <<>> THEN <<>> ELSE <<operand>>) \o <<(<<chars[1]>>)>>
            \o Tokens(Tail(chars), <<>>)
  ELSE Tokens(Tail(chars), Append(operand, chars[1]))

ParseToken(token) ==
  LET number == TakeDigits(token)
      after == Rest(token, Len(number))
  IN IF IsOperator(token[1])
     THEN [kind |-> "operator", number |-> 0, faces |-> 0, modifiers |-> token]
     ELSE IF after = <<>>
     THEN [kind |-> "numeric", number |-> NumberOf(number), faces |-> 0,
           modifiers |-> <<>>]
     ELSE IF after[1] = "d" /\ TakeDigits(Tail(after)) # <<>>
     THEN LET faces == TakeDigits(Tail(after)) IN
          [kind |-> "die", number |-> IF number = <<>> THEN 1 ELSE NumberOf(number),
           faces |-> NumberOf(faces), modifiers |-> Rest(Tail(after), Len(faces))]
     ELSE [kind |-> "invalid", number |-> 0, faces |-> 0, modifiers |-> token]

\* the terms of new Roll(formula)
ParseFormula(chars) ==
  LET tokens == Tokens(chars, <<>>)
  IN [i \in 1..Len(tokens) |-> ParseToken(tokens[i])]

NoPayload ==
  [rolls |-> FALSE, rollKind |-> NoText, diceNotation |-> FALSE, set |-> <<>>,
   values |-> NoValues, constant |-> 0]

NoParse ==
  [phase |-> "none", rollData |-> NoPayload, modifier |-> 0, result |-> EmptyResult,
   terms |-> <<>>, groups |-> <<>>]

NoOverride ==
  [pc |-> "idle", actorType |-> "none", diceMode |-> "unset", formula |-> <<>>,
   prompted |-> "none", answered |-> "none", results |-> <<>>, calls |-> 0,
   substitutions |-> 0, local |-> <<>>, terms |-> <<>>, total |-> 0]

Evals == 1..MaxEvals

IdleEval ==
  [st |-> "idle", ddbCharacterId |-> NoEntity, itemName |-> NoText,
   diceTerms |-> <<>>, subscriptionId |-> 0, filled |-> <<>>,
   ddbResults |-> "pending", source |-> <<>>, subscribed |-> FALSE]

Init ==
  /\ processedMessageIds = <<>>
  /\ deliveries = <<>>
  /\ pendingRollCallbacks = <<>>
  /\ cachedRolls = [k \in CacheKeys |-> <<>>]
  /\ cacheTimers = [k \in CacheKeys |-> 0]
  /\ processingRolls = {}
  /\ guardTimers = {}
  /\ evals = [e \in Evals |-> IdleEval]
  /\ nextSubId = 1
  /\ extCount = 0
  /\ handlers = <<>>
  /\ lastDispatch = [dispatcher |-> "none", event |-> NoText, bridge |-> FALSE,
                     handlers |-> <<>>, invoked |-> <<>>, result |-> "none",
                     cached |-> FALSE, missing |-> NoText, consulted |-> 0]
  /\ marks = <<>>
  /\ now = 0
  /\ timerDue = [k \in CacheKeys |-> <<>>]
  /\ cacheLog = <<>>
  /\ transport = NewTransport
  /\ subst = NoRoll
  /\ override = NoOverride
  /\ parse = NoParse
  /\ wire = NoFrame

\* the variables of the specifications of single components
sideVars == <<now, timerDue, cacheLog, transport, subst, override, parse, wire>>

dispatcherVars == <<handlers, lastDispatch>>
bridgeVars == <<pendingRollCallbacks, cachedRolls, cacheTimers, processingRolls,
                guardTimers, evals, nextSubId, extCount>>

\* The record of one call of handleDDBMessage.
Delivery(message, duplicate, handler) ==
  [message |-> message, duplicate |-> duplicate, handler |-> handler,
   pc |-> "done", callbacks |-> <<>>, idx |-> 1, res |-> "none", invoked |-> <<>>,
   consumed |-> FALSE, routed |-> FALSE, rollHandler |-> NoText, cached |-> FALSE,
   guarded |-> FALSE, outcome |-> "none"]

HandlerState(d) ==
  [d |-> d, evs |-> evals, cache |-> cachedRolls, timers |-> cacheTimers,
   processing |-> processingRolls]

SetHandlerState(n, st) ==
  /\ deliveries' = IF n > Len(deliveries) THEN Append(deliveries, st.d)
                   ELSE [deliveries EXCEPT ![n] = st.d]
  /\ evals' = st.evs
  /\ cachedRolls' = st.cache
  /\ cacheTimers' = st.timers
  /\ processingRolls' = st.processing

(***************************************************************************)
(* DDBSyncManager.handleDDBMessage, called by the transport's `message`    *)
(* listener without being awaited: key, duplicate test, mark, dispatch.    *)
(* The run goes on through MessageDispatcher.dispatch into the selected    *)
(* handler up to its first await.                                          *)
(***************************************************************************)
HandleDDBMessageUpTo(message, limit) ==
  LET messageKey == CreateMessageKey(message)
      h == FirstMatch([i \in 1..Len(MessageHandlers) |->
                         MessageCanHandle(MessageHandlers[i], message)])
      n == Len(deliveries) + 1
  IN
  /\ Len(deliveries) < limit
  /\ UNCHANGED <<dispatcherVars, marks>>
  /\ IF IsProcessed(processedMessageIds, messageKey)
     THEN /\ deliveries' = Append(deliveries, Delivery(message, TRUE, NoText))
          /\ UNCHANGED <<processedMessageIds, bridgeVars>>
     ELSE /\ processedMessageIds' = MarkProcessed(processedMessageIds, messageKey)
          /\ UNCHANGED <<pendingRollCallbacks, guardTimers, nextSubId, extCount>>
          /\ IF h = 0
             THEN SetHandlerState(n, HandlerState(Delivery(message, FALSE, NoText)))
             ELSE IF MessageHandlers[h] = "DamageMessageHandler"
             THEN SetHandlerState(n, HandlerState(
                    [Delivery(message, FALSE, MessageHandlers[h])
                       EXCEPT !.pc = "awaitHandler"]))
             ELSE SetHandlerState(n, NotifyFrom(HandlerState(
                    [Delivery(message, FALSE, MessageHandlers[h])
                       EXCEPT !.callbacks = pendingRollCallbacks])))

HandleDDBMessage(message) == HandleDDBMessageUpTo(message, MaxMsgs)

(***************************************************************************)
(* handle resumes after `await callback.handler(...)`: a true result       *)
(* removes a once subscription and marks the roll consumed, a rejection is *)
(* logged; then the loop goes on.                                          *)
(***************************************************************************)
ResumeCallback(n) ==
  LET d == deliveries[n]
      cb == d.callbacks[d.idx]
  IN
  /\ d.pc = "awaitCallback"
  /\ pendingRollCallbacks' =
       IF d.res = "true" /\ cb.once THEN Unsubscribe(pendingRollCallbacks, cb.id)
       ELSE pendingRollCallbacks
  /\ SetHandlerState(n, NotifyFrom(HandlerState(
       [d EXCEPT !.consumed = @ \/ d.res = "true", !.idx = @ + 1, !.res = "none"])))
  /\ UNCHANGED <<processedMessageIds, guardTimers, nextSubId, extCount,
                 dispatcherVars, marks>>

(***************************************************************************)
(* The awaited handler settles: DamageMessageHandler.handle, or            *)
(* DiceRollHandler.handleRoll (which catches what the strategy throws);    *)
(* the finally block of handle then starts the 5 s timer of the guard.     *)
(***************************************************************************)
\* a handler whose completion removes the processing flag at once
FinishHandlerImmediate(n, outcome) ==
  LET d == deliveries[n] IN
  /\ d.pc = "awaitHandler"
  /\ deliveries' = [deliveries EXCEPT ![n].pc = "done", ![n].outcome = outcome]
  /\ processingRolls' = IF d.handler = "DiceRollMessageHandler"
                        THEN processingRolls \ {RollKey(d.message)}
                        ELSE processingRolls
  /\ UNCHANGED <<processedMessageIds, pendingRollCallbacks, cachedRolls, cacheTimers,
                 guardTimers, evals, nextSubId, extCount, dispatcherVars, marks>>

FinishHandler(n, outcome) ==
  LET d == deliveries[n] IN
  /\ d.pc = "awaitHandler"
  /\ deliveries' = [deliveries EXCEPT ![n].pc = "done", ![n].outcome = outcome]
  /\ guardTimers' = IF d.handler = "DiceRollMessageHandler"
                    THEN guardTimers \cup {RollKey(d.message)}
                    ELSE guardTimers
  /\ UNCHANGED <<processedMessageIds, pendingRollCallbacks, cachedRolls, cacheTimers,
                 processingRolls, evals, nextSubId, extCount, dispatcherVars, marks>>

\* setTimeout(() => this.processingRolls.delete(rollKey), 5000)
GuardTimeout(rollKey) ==
  /\ rollKey \in guardTimers
  /\ guardTimers' = guardTimers \ {rollKey}
  /\ processingRolls' = processingRolls \ {rollKey}
  /\ UNCHANGED <<processedMessageIds, deliveries, pendingRollCallbacks, cachedRolls,
                 cacheTimers, evals, nextSubId, extCount, dispatcherVars, marks>>

\* the 30 s timeout of _cacheRoll: deletes whatever entry the key has then
CacheExpire(cacheKey) ==
  /\ cacheTimers[cacheKey] > 0
  /\ cacheTimers' = [cacheTimers EXCEPT ![cacheKey] = @ - 1]
  /\ cachedRolls' = [cachedRolls EXCEPT ![cacheKey] = <<>>]
  /\ UNCHANGED <<processedMessageIds, deliveries, pendingRollCallbacks,
                 processingRolls, guardTimers, evals, nextSubId, extCount,
                 dispatcherVars, marks>>

\* subscribe() called by some other consumer of the bridge
SubscribeExt(beh, once) ==
  /\ extCount < MaxExtSubs
  /\ pendingRollCallbacks' = Subscribe(pendingRollCallbacks,
       [id |-> nextSubId, kind |-> "ext", owner |-> 0, beh |-> beh, once |-> once,
        ddbCharacterId |-> NoEntity, diceTerms |-> <<>>])
  /\ nextSubId' = nextSubId + 1
  /\ extCount' = extCount + 1
  /\ UNCHANGED <<processedMessageIds, deliveries, cachedRolls, cacheTimers,
                 processingRolls, guardTimers, evals, dispatcherVars, marks>>

\* unsubscribe(id) called by that consumer, with an id pending or not
\* (nextSubId stands for the ids the bridge never gave out)
UnsubscribeExt(subscriptionId) ==
  /\ extCount > 0
  /\ pendingRollCallbacks' = Unsubscribe(pendingRollCallbacks, subscriptionId)
  /\ UNCHANGED <<processedMessageIds, deliveries, cachedRolls, cacheTimers,
                 processingRolls, guardTimers, evals, nextSubId, extCount,
                 dispatcherVars, marks>>

\* clearSubscriptions()
ClearSubscriptions ==
  /\ pendingRollCallbacks # <<>>
  /\ pendingRollCallbacks' = <<>>
  /\ UNCHANGED <<processedMessageIds, deliveries, cachedRolls, cacheTimers,
                 processingRolls, guardTimers, evals, nextSubId, extCount,
                 dispatcherVars, marks>>

(***************************************************************************)
(* RollEvaluationOverride._handleEvaluate for a character in ddb mode, up  *)
(* to its await of DiceInputDialog.promptForDDBDice, which runs to its     *)
(* return from the cache or to the rendering of its dialog.                *)
(***************************************************************************)
HandleEvaluate(e, ddbCharacterId, itemName, diceTerms) ==
  LET ev == [evals[e] EXCEPT !.ddbCharacterId = ddbCharacterId,
                             !.itemName = itemName, !.diceTerms = diceTerms]
  IN
  /\ evals[e].st = "idle"
  /\ \A f \in Evals : f < e => evals[f].st # "idle"
  /\ IF /\ ddbCharacterId # NoEntity
        /\ itemName # NoText
        /\ HasCachedRoll(cachedRolls, ddbCharacterId, itemName)
     THEN /\ evals' = [evals EXCEPT ![e] =
                 [ev EXCEPT !.st = "resolved", !.ddbResults = "cache",
                            !.source = cachedRolls[CacheKey(ddbCharacterId, itemName)]]]
          /\ cachedRolls' = GetCachedRoll(cachedRolls, ddbCharacterId, itemName)
     ELSE /\ evals' = [evals EXCEPT ![e] = [ev EXCEPT !.st = "rendering"]]
          /\ UNCHANGED cachedRolls
  /\ UNCHANGED <<processedMessageIds, deliveries, pendingRollCallbacks, cacheTimers,
                 processingRolls, guardTimers, nextSubId, extCount, dispatcherVars,
                 marks>>

\* render(true) resolved: _setupDDBRollListener subscribes the dialog's handler
DialogRendered(e) ==
  /\ evals[e].st = "rendering"
  /\ pendingRollCallbacks' = Subscribe(pendingRollCallbacks,
       [id |-> nextSubId, kind |-> "dialog", owner |-> e, beh |-> NoText,
        once |-> TRUE, ddbCharacterId |-> evals[e].ddbCharacterId,
        diceTerms |-> evals[e].diceTerms])
  /\ evals' = [evals EXCEPT ![e].st = "waiting", ![e].subscriptionId = nextSubId,
                            ![e].subscribed = TRUE]
  /\ nextSubId' = nextSubId + 1
  /\ UNCHANGED <<processedMessageIds, deliveries, cachedRolls, cacheTimers,
                 processingRolls, guardTimers, extCount, dispatcherVars, marks>>

\* _cleanupDDBListener: unsubscribe by id, nothing for a null id
CleanupDDBListener(callbacks, subscriptionId) ==
  IF subscriptionId = 0 THEN callbacks ELSE Unsubscribe(callbacks, subscriptionId)

\* "Use These Results": enabled only once a roll filled the form
ConfirmDialog(e) ==
  /\ evals[e].st = "ready"
  /\ pendingRollCallbacks' =
       CleanupDDBListener(pendingRollCallbacks, evals[e].subscriptionId)
  /\ evals' = [evals EXCEPT ![e].st = "resolved", ![e].ddbResults = "form",
                            ![e].source = evals[e].filled]
  /\ UNCHANGED <<processedMessageIds, deliveries, cachedRolls, cacheTimers,
                 processingRolls, guardTimers, nextSubId, extCount, dispatcherVars,
                 marks>>

\* "Roll Normally"
CancelDialog(e) ==
  /\ evals[e].st \in {"waiting", "ready"}
  /\ pendingRollCallbacks' =
       CleanupDDBListener(pendingRollCallbacks, evals[e].subscriptionId)
  /\ evals' = [evals EXCEPT ![e].st = "resolved", ![e].ddbResults = "null"]
  /\ UNCHANGED <<processedMessageIds, deliveries, cachedRolls, cacheTimers,
                 processingRolls, guardTimers, nextSubId, extCount, dispatcherVars,
                 marks>>

\* The window is closed without a button: the `close` entry of the options
\* is not called ("TODO: close handler not called"), so nothing is cleaned
\* up and the promise is left pending.
DismissDialog(e) ==
  /\ evals[e].st \in {"waiting", "ready"}
  /\ evals' = [evals EXCEPT ![e].st = "dismissed"]
  /\ UNCHANGED <<processedMessageIds, deliveries, pendingRollCallbacks, cachedRolls,
                 cacheTimers, processingRolls, guardTimers, nextSubId, extCount,
                 dispatcherVars, marks>>

\* _handleEvaluate resumes with the prompt's result, evaluates and returns
EvaluateReturn(e) ==
  /\ evals[e].st = "resolved"
  /\ evals' = [evals EXCEPT ![e] =
       [IdleEval EXCEPT !.st = "returned", !.subscribed = evals[e].subscribed,
                        !.subscriptionId = evals[e].subscriptionId]]
  /\ UNCHANGED <<processedMessageIds, deliveries, pendingRollCallbacks, cachedRolls,
                 cacheTimers, processingRolls, guardTimers, nextSubId, extCount,
                 dispatcherVars, marks>>

\* Message ids are opaque: a new one is the least id not yet delivered.
FreshOrSeen(message) ==
  \A i \in 1..(message.id - 1) :
    \E n \in 1..Len(deliveries) : deliveries[n].message.id = i

(***************************************************************************)
(* The event loop.  The handler a dialog subscribes returns its boolean    *)
(* at once, so `await callback.handler(...)` in handle resumes in a        *)
(* microtask: before the next message, timer or click.  The handler of     *)
(* another subscriber may return a promise that settles any time later.    *)
(***************************************************************************)
MicrotaskPending ==
  \E n \in 1..Len(deliveries) :
    /\ deliveries[n].pc = "awaitCallback"
    /\ deliveries[n].callbacks[deliveries[n].idx].kind = "dialog"

TaskReady == ~MicrotaskPending

BridgeNext(evs) ==
  \/ TaskReady /\ \E message \in BridgeRolls :
                     FreshOrSeen(message) /\ HandleDDBMessage(message)
  \/ \E n \in 1..Len(deliveries) : ResumeCallback(n)
  \/ \E n \in 1..Len(deliveries), outcome \in {"ok", "throw"} : FinishHandler(n, outcome)
  \/ TaskReady /\ \E rollKey \in guardTimers : GuardTimeout(rollKey)
  \/ TaskReady /\ \E cacheKey \in CacheKeys : CacheExpire(cacheKey)
  \/ TaskReady /\ \E e \in evs, c \in CharacterFlags, a \in ItemNames, t \in TermSets :
                     HandleEvaluate(e, c, a, t)
  \/ TaskReady /\ \E e \in evs : DialogRendered(e)
  \/ TaskReady /\ \E e \in evs : ConfirmDialog(e)
  \/ TaskReady /\ \E e \in evs : CancelDialog(e)
  \/ TaskReady /\ \E e \in evs : DismissDialog(e)
  \/ \E e \in evs : EvaluateReturn(e)

(***************************************************************************)
(* Spec: the bridge with the dialogs of up to MaxEvals evaluations as its  *)
(* only subscribers.                                                       *)
(***************************************************************************)
Next == BridgeNext(Evals) /\ UNCHANGED sideVars

Spec == Init /\ [][Next]_vars

(***************************************************************************)
(* SpecSubs: the bridge with subscribers of any behaviour beside the       *)
(* dialogs of up to MaxSubsEvals evaluations.                              *)
(***************************************************************************)
NextSubs ==
  \/ BridgeNext(1..MaxSubsEvals) /\ UNCHANGED sideVars
  \/ TaskReady /\ \E beh \in {"true", "false", "throw"}, once \in BOOLEAN :
                     SubscribeExt(beh, once) /\ UNCHANGED sideVars
  \/ TaskReady /\ UNCHANGED sideVars
       /\ \E subscriptionId \in 1..nextSubId : UnsubscribeExt(subscriptionId)
  \/ TaskReady /\ ClearSubscriptions /\ UNCHANGED sideVars

SpecSubs == Init /\ [][NextSubs]_vars

(***************************************************************************)
(* SpecMsg: a long stream of messages through handleDDBMessage, long       *)
(* enough for the deduplicator to evict.  The first ids are damage events, *)
(* whose handler awaits; the others have no handler.                       *)
(***************************************************************************)
StreamMessage(id) ==
  [eventType |-> IF id <= MaxAwaited THEN DamageEvent ELSE UpdateEvent, id |-> id,
   rollId |-> 0, entityId |-> NoEntity, action |-> NoText, rollType |-> NoText,
   dice |-> <<>>]

SeenIds == {deliveries[n].message.id : n \in 1..Len(deliveries)}

\* a new message (the least id not yet delivered) or one delivered before
NextMsg ==
  \/ LET seen == Cardinality(SeenIds) IN
     \E id \in {seen + 1} \cup 1..MaxAwaited :
        /\ id <= MaxStreamIds
        /\ id <= seen => Len(deliveries) - seen < MaxRedeliver
        /\ HandleDDBMessageUpTo(StreamMessage(id), MaxStreamIds + MaxRedeliver)
        /\ UNCHANGED sideVars
  \/ /\ \E n \in 1..Len(deliveries), outcome \in {"ok", "throw"} :
          FinishHandler(n, outcome)
     /\ UNCHANGED sideVars

SpecMsg == Init /\ [][NextMsg]_vars

(***************************************************************************)
(* SpecCache: the roll cache called directly (_cacheRoll, getCachedRoll)   *)
(* under a clock.  A timeout is due 30 s after the _cacheRoll that set it  *)
(* and runs before the clock goes past its time.  cacheLog records, for    *)
(* every entry cached, its key, its roll, the time and how often           *)
(* getCachedRoll returned it.                                              *)
(***************************************************************************)
CacheTtl == 30000

\* the clock is read at these intervals
TimeStep == CacheTtl \div 3

\* the n-th roll cached
CachedRollData(n, entityId, action) ==
  [eventType |-> RollEvent, id |-> n, rollId |-> n, entityId |-> entityId,
   action |-> action, rollType |-> "to hit", dice |-> D20]

\* _cacheRoll(entityId, action, rollData, message)
CacheRollCall(entityId, action) ==
  LET n == Len(cacheLog) + 1
      key == CacheKey(entityId, action)
  IN
  /\ n <= MaxCached
  /\ cachedRolls' = CacheRoll(cachedRolls, entityId, action,
                              CachedRollData(n, entityId, action))
  /\ cacheTimers' = [cacheTimers EXCEPT ![key] = @ + 1]
  /\ timerDue' = [timerDue EXCEPT ![key] = Append(@, now + CacheTtl)]
  /\ cacheLog' = Append(cacheLog, [key |-> key, rollId |-> n, at |-> now, got |-> 0])
  /\ UNCHANGED <<processedMessageIds, deliveries, pendingRollCallbacks,
                 processingRolls, guardTimers, evals, nextSubId, extCount,
                 dispatcherVars, marks, now>>

\* getCachedRoll(entityId, action)
GetCachedRollCall(entityId, action) ==
  LET key == CacheKey(entityId, action) IN
  /\ cachedRolls' = GetCachedRoll(cachedRolls, entityId, action)
  /\ cacheLog' = IF HasCachedRoll(cachedRolls, entityId, action)
                 THEN [cacheLog EXCEPT ![cachedRolls[key][1].rollId].got = @ + 1]
                 ELSE cacheLog
  /\ UNCHANGED <<processedMessageIds, deliveries, pendingRollCallbacks, cacheTimers,
                 processingRolls, guardTimers, evals, nextSubId, extCount,
                 dispatcherVars, marks, now, timerDue>>

\* the timeout set by _cacheRoll runs
CacheTimeout(cacheKey) ==
  /\ timerDue[cacheKey] # <<>>
  /\ Head(timerDue[cacheKey]) <= now
  /\ CacheExpire(cacheKey)
  /\ timerDue' = [timerDue EXCEPT ![cacheKey] = Tail(@)]
  /\ UNCHANGED <<now, cacheLog>>

TimerIsDue == \E k \in CacheKeys : timerDue[k] # <<>> /\ Head(timerDue[k]) <= now

TickClock ==
  /\ now < MaxTime
  /\ ~TimerIsDue
  /\ now' = now + TimeStep
  /\ UNCHANGED <<processedMessageIds, deliveries, bridgeVars, dispatcherVars, marks,
                 timerDue, cacheLog>>

NextCache ==
  \/ \E entityId \in EntityIds, action \in Actions :
       CacheRollCall(entityId, action) /\ UNCHANGED <<transport, subst, override, parse, wire>>
  \/ \E entityId \in EntityIds, action \in ItemNames :
       GetCachedRollCall(entityId, action) /\ UNCHANGED <<transport, subst, override, parse, wire>>
  \/ \E cacheKey \in CacheKeys : CacheTimeout(cacheKey) /\ UNCHANGED <<transport, subst, override, parse, wire>>
  \/ TickClock /\ UNCHANGED <<transport, subst, override, parse, wire>>

SpecCache == Init /\ [][NextCache]_vars

\* the entry cacheLog[i] is what getCachedRoll would return now
Retrievable(i) ==
  LET c == cacheLog[i] IN
  cachedRolls[c.key] # <<>> /\ cachedRolls[c.key][1].rollId = c.rollId

\* no later _cacheRoll has replaced the entry cacheLog[i] under its key
Latest(i) == \A j \in (i + 1)..Len(cacheLog) : cacheLog[j].key # cacheLog[i].key

\* C12: an entry cached under a key (and not replaced by a later entry of
\* the key) is retrievable until getCachedRoll has returned it or 30 s
\* have passed since it was cached, and not after; getCachedRoll returns
\* each entry at most once.
C12_ThirtySecondsPerEntry ==
  \A i \in 1..Len(cacheLog) :
    LET c == cacheLog[i] IN
    /\ c.got <= 1
    /\ (Latest(i) /\ c.got = 0 /\ now < c.at + CacheTtl) => Retrievable(i)
    /\ (c.got > 0 \/ now > c.at + CacheTtl) => ~Retrievable(i)

(***************************************************************************)
(* SpecTransport: one DDBWebSocket with its callers (connect, disconnect), *)
(* the credential exchange, its sockets and its reconnect timers.          *)
(***************************************************************************)
TransportStep(t) ==
  /\ transport' = t
  /\ UNCHANGED <<processedMessageIds, deliveries, bridgeVars, dispatcherVars, marks,
                 now, timerDue, cacheLog, subst, override, parse, wire>>

\* connect() called by the owner of the transport
Connect ==
  /\ transport.connects < MaxConnects
  /\ TransportStep([ConnectStarted(transport, "explicit")
                      EXCEPT !.connects = @ + 1, !.stopped = FALSE])

\* disconnect() called by the owner of the transport
Disconnect ==
  LET t == DisconnectTransport(transport) IN
  /\ t.ws = "null"
  /\ TransportStep([t EXCEPT !.stopped = TRUE])

\* the timeout set by scheduleReconnect runs: connect()
ReconnectTimer ==
  /\ transport.timers > 0
  /\ TransportStep(ConnectStarted([transport EXCEPT !.timers = @ - 1], "timer"))

Outcomes == {"token", "throw", "auth", "status", "network", "notoken"}

FetchReturns(origin, outcome, managed) ==
  /\ IF origin = "explicit" THEN transport.fetchExplicit > 0
     ELSE transport.fetchTimer > 0
  /\ outcome = "token" => transport.created < MaxSockets
  /\ TransportStep(ConnectResumed(transport, origin, outcome, managed))

\* the socket named by which: the one of this.ws or an orphan
Connecting(which) ==
  IF which = "ws" THEN transport.ws = "connecting" ELSE transport.orphanConnecting > 0

\* onOpen()
OnOpen(which) ==
  /\ Connecting(which)
  /\ LET t == IF which = "ws" THEN [transport EXCEPT !.ws = "open"]
              ELSE [transport EXCEPT !.orphanConnecting = @ - 1, !.orphanOpen = @ + 1]
     IN TransportStep([t EXCEPT !.reconnectAttempts = 0, !.terminal = 0,
                                !.scheduled = 0])

CloseCodes == {1000, 1006}

\* the sockets that can still close, and the socket gone
Closable(which) ==
  CASE which = "ws" -> transport.ws \in {"connecting", "open"}
    [] which = "orphanConnecting" -> transport.orphanConnecting > 0
    [] which = "orphanOpen" -> transport.orphanOpen > 0
    [] which = "closingConnecting" -> transport.closingConnecting > 0
    [] OTHER -> transport.closingOpen > 0

Closed(t, which) ==
  CASE which = "ws" -> [t EXCEPT !.ws = "closed"]
    [] which = "orphanConnecting" -> [t EXCEPT !.orphanConnecting = @ - 1]
    [] which = "orphanOpen" -> [t EXCEPT !.orphanOpen = @ - 1]
    [] which = "closingConnecting" -> [t EXCEPT !.closingConnecting = @ - 1]
    [] OTHER -> [t EXCEPT !.closingOpen = @ - 1]

\* onClose(event): a socket closed by close(1000) while open closes with
\* code 1000; one closed before its connection was established closes
\* with 1000 or 1006; the server or the network close with either.
OnClose(which, code) ==
  /\ Closable(which)
  /\ which = "closingOpen" => code = 1000
  /\ LET t == Closed(transport, which) IN
     IF code # 1000
     THEN TransportStep(Ended(ScheduleReconnect(t), "unexpectedClose", "socket", TRUE))
     ELSE TransportStep(Ended(t, "cleanClose", "socket", FALSE))

NextTransport ==
  \/ Connect
  \/ Disconnect
  \/ ReconnectTimer
  \/ \E origin \in {"explicit", "timer"}, outcome \in Outcomes, managed \in BOOLEAN :
        FetchReturns(origin, outcome, managed)
  \/ \E which \in {"ws", "orphan"} : OnOpen(which)
  \/ \E which \in {"ws", "orphanConnecting", "orphanOpen", "closingConnecting",
                    "closingOpen"}, code \in CloseCodes : OnClose(which, code)

SpecTransport == Init /\ [][NextTransport]_vars

\* a socket opened in the step
Opened ==
  \/ transport.ws # "open" /\ transport'.ws = "open"
  \/ /\ transport'.orphanConnecting = transport.orphanConnecting - 1
     /\ transport'.orphanOpen = transport.orphanOpen + 1

\* a reconnect timeout was set in the step
TimerSet ==
  \/ transport'.timers > transport.timers
  \/ transport'.scheduled > transport.scheduled

C36_Step ==
  /\ transport'.reconnectAttempts \in 0..maxReconnectAttempts
  /\ transport'.reconnectAttempts # transport.reconnectAttempts =>
       \/ /\ transport'.reconnectAttempts = transport.reconnectAttempts + 1
          /\ TimerSet
       \/ transport'.reconnectAttempts = 0 /\ Opened
  /\ TimerSet =>
       /\ transport'.timers = transport.timers + 1
       /\ transport'.scheduled = transport.scheduled + 1
       /\ transport'.reconnectAttempts = transport.reconnectAttempts + 1
       /\ transport'.delay = reconnectDelay * transport'.scheduled

\* C36: the k-th reconnect scheduled since the last onOpen has delay
\* 3000 * k ms; the attempt counter stays within 0..5, goes up by one
\* exactly when a reconnect timeout is set and returns to 0 only in a
\* step in which a socket opened.
C36_LinearBackoff == [][C36_Step]_vars

\* the fifth reconnect in a row, scheduled with delay 15000 after an
\* earlier run of reconnects was ended by an open socket
C36_Witness ==
  /\ transport.reconnectAttempts = maxReconnectAttempts
  /\ transport.scheduled = 5
  /\ transport.delay = 15000
  /\ transport.ws = "open" \/ transport.orphanOpen > 0
  /\ transport.timers > 0

\* C13: after disconnect() the transport creates no socket and schedules
\* no reconnect until connect() is called again.
C13_DisconnectIsFinal == ~transport.strayed

\* nothing of the transport is left to run
Quiescent ==
  /\ transport.timers = 0
  /\ transport.fetchExplicit = 0 /\ transport.fetchTimer = 0
  /\ transport.ws \notin {"connecting", "open"}
  /\ transport.orphanConnecting = 0 /\ transport.orphanOpen = 0
  /\ transport.closingConnecting = 0 /\ transport.closingOpen = 0

Failures == {"tokenFailure", "createFailure", "unexpectedClose"}

\* C14: once the 5 reconnect attempts are used up without an open, the
\* transport schedules no retry and reports the terminal disconnection
\* exactly once: never twice, and once when nothing is left to run after a
\* failed last attempt.
C14_TerminalReportedOnce ==
  /\ transport.terminal <= 1
  /\ transport.reconnectAttempts <= maxReconnectAttempts
  /\ (/\ transport.reconnectAttempts = maxReconnectAttempts
      /\ Quiescent /\ ~transport.stopped
      /\ transport.lastEnd.kind \in Failures)
     => transport.terminal = 1

FetchCount(t) == t.fetchExplicit + t.fetchTimer

\* C15: a credential exchange answered 401 or 403 emits cookieExpired once
\* for that attempt, creates no socket and schedules no reconnect, whether
\* connect() was called by the owner or by a reconnect timer.
C15_Step ==
  (FetchCount(transport') < FetchCount(transport) /\
   transport'.lastEnd.kind = "authFailure")
  => /\ transport'.cookieExpired = transport.cookieExpired + 1
     /\ transport'.created = transport.created
     /\ transport'.ws \in {transport.ws, "null"}
     /\ transport'.timers = transport.timers
     /\ transport'.reconnectAttempts = transport.reconnectAttempts
     /\ transport'.terminal = transport.terminal

C15_AuthFailureStops == [][C15_Step]_vars

C15_Witness ==
  /\ transport.lastEnd.kind = "authFailure"
  /\ transport.lastEnd.origin = "timer"
  /\ transport.cookieExpired = 1
  /\ Quiescent

\* C16: every connect failure other than an authentication failure (the
\* exchange fails otherwise or gives no token, the socket cannot be
\* created or closes unexpectedly) triggers a reconnect attempt.
C16_FailureRetries ==
  transport.lastEnd.kind \in Failures => transport.lastEnd.retried

(***************************************************************************)
(* SpecSubst: rolls are built from a formula, evaluated with local dice    *)
(* and substituted with the groups of an external roll.                    *)
(***************************************************************************)
Values == {3, 5, 9, 14}
ValueSeqs == UNION {[1..n -> Values] : n \in 0..MaxGroupLen}
GroupLists == UNION {[1..n -> ValueSeqs] : n \in 0..MaxGroups}

TwoD6PlusD20kh == <<DieTerm(2, 6, "none"), OperatorTerm, DieTerm(1, 20, "kh")>>
Formulas ==
  {TwoD6PlusD20kh, <<DieTerm(2, 20, "kh")>>, <<DieTerm(2, 20, "kl")>>,
   <<DieTerm(1, 20, "none"), OperatorTerm, NumericTerm>>}

\* what the dice of a formula can come up with
LocalRolls(formula) ==
  {l \in [1..Len(formula) -> ValueSeqs] :
     \A i \in 1..Len(formula) :
       /\ Len(l[i]) = IF formula[i].kind = "die" THEN formula[i].number ELSE 0
       /\ \A j \in 1..Len(l[i]) : l[i][j] <= formula[i].faces}

\* the unmodified Roll.prototype.evaluate on the terms of a formula
EvaluateRoll(formula, locals) ==
  [i \in 1..Len(formula) |->
     IF formula[i].kind = "die" THEN EvaluateTerm(formula[i], locals[i]) ELSE formula[i]]

\* new Roll(formula); await roll.evaluate()
BuildRoll(formula, locals) ==
  LET evaluated == EvaluateRoll(formula, locals) IN
  /\ subst.phase = "none"
  /\ subst' = [NoRoll EXCEPT !.phase = "evaluated", !.local = evaluated,
                             !.terms = evaluated, !.total = RollTotal(evaluated)]

\* this.substituteDDBResults(roll, ddbDiceResults) and, unless that threw,
\* roll._total = roll._evaluateTotal()
Substitute(ddbDiceResults) ==
  LET r == SubstituteDDBResults(subst.terms, ddbDiceResults) IN
  /\ subst.phase = "evaluated"
  /\ subst' = [subst EXCEPT !.phase = IF r.threw THEN "threw" ELSE "done",
                            !.terms = r.terms, !.given = ddbDiceResults,
                            !.groups = r.groups, !.threw = r.threw,
                            !.total = IF r.threw THEN @
                                      ELSE EvaluateTotal(r.terms, @)]

\* the roll is returned, or the error is thrown on, and another roll is built
ReturnRoll ==
  /\ subst.phase \in {"done", "threw"}
  /\ subst' = NoRoll

NextSubst ==
  /\ \/ /\ subst.phase = "none"
        /\ \E formula \in Formulas : \E locals \in LocalRolls(formula) :
             BuildRoll(formula, locals)
     \/ \E ddbDiceResults \in GroupLists : Substitute(ddbDiceResults)
     \/ ReturnRoll
  /\ UNCHANGED <<processedMessageIds, deliveries, bridgeVars, dispatcherVars, marks,
                 now, timerDue, cacheLog, transport, override, parse, wire>>

SpecSubst == Init /\ [][NextSubst]_vars

\* the die terms of the roll under substitution
DieTerms == {i \in 1..Len(subst.terms) : subst.terms[i].kind = "die"}

\* the position among the die terms of the term at position i
DieIndex(i) == Cardinality({j \in DieTerms : j <= i})

\* the external group the term at position i is paired with
HasGroup(i) == DieIndex(i) <= Len(subst.given)
GroupOf(i) == subst.given[DieIndex(i)]

Highest(values) == SortValues(values)[Len(values)]
Lowest(values) == SortValues(values)[1]

\* C17: terms [2d6, 1d20kh1] with groups [[3,5],[14,9]] end with the 2d6
\* outcomes [3,5] and the 1d20 term contributing 14; in general a
\* keep-highest term given more external values than it has dice contributes
\* the highest external value.
C17_KeepsHighestExternal ==
  subst.phase = "done" =>
    /\ (/\ Len(subst.terms) = Len(TwoD6PlusD20kh)
        /\ [i \in 1..Len(subst.terms) |-> [subst.terms[i] EXCEPT !.results = <<>>]]
             = TwoD6PlusD20kh
        /\ subst.given = <<(<<3, 5>>), (<<14, 9>>)>>)
       => /\ ResultValues(subst.terms[1].results) = <<3, 5>>
          /\ TermTotal(subst.terms[3]) = 14
    /\ \A i \in DieTerms :
         (/\ subst.terms[i].keep = "kh"
          /\ HasGroup(i)
          /\ Len(GroupOf(i)) > Len(subst.terms[i].results))
         => TermTotal(subst.terms[i]) = Highest(GroupOf(i))

\* C18: the i-th die term is paired with the i-th group and, when both have
\* the same length, its outcomes in ascending local rank carry the external
\* values in ascending order; a keep-highest term then keeps the maximum
\* external value and a keep-lowest term the minimum.
C18_RankAssignment ==
  subst.phase = "done" =>
    \A i \in DieTerms :
      (HasGroup(i) /\ Len(GroupOf(i)) = Len(subst.terms[i].results)) =>
        LET results == subst.terms[i].results
            before == SortResults(subst.local[i].results)
        IN /\ ResultValues(results) = SortValues(GroupOf(i))
           /\ \A j \in 1..Len(results) : results[j].die = before[j].die
           /\ subst.terms[i].keep = "kh" => TermTotal(subst.terms[i]) = Highest(GroupOf(i))
           /\ subst.terms[i].keep = "kl" => TermTotal(subst.terms[i]) = Lowest(GroupOf(i))

\* C19: substitution never raises: with fewer values than dice, or fewer
\* groups than die terms, it completes and the unmatched outcomes keep
\* their local values.
C19_TruncatesNeverRaises ==
  /\ ~subst.threw
  /\ subst.phase = "done" =>
       \A i \in DieTerms :
         LET before == SortResults(subst.local[i].results)
             matched == IF HasGroup(i) THEN Len(GroupOf(i)) ELSE 0
         IN \A j \in (matched + 1)..Len(before) :
              subst.terms[i].results[j] = before[j]

\* an outcome without its value
Frame(r) == [die |-> r.die, active |-> r.active]

\* C20: substitution leaves the number of terms, every term's kind, faces
\* and keep modifier, the number of outcomes of every die term and every
\* other term as they were; of an outcome only the value changes.
C20_OnlyValuesChange ==
  subst.phase \in {"done", "threw"} =>
    /\ Len(subst.terms) = Len(subst.local)
    /\ \A i \in 1..Len(subst.terms) :
         LET t == subst.terms[i]
             l == subst.local[i]
         IN /\ [t EXCEPT !.results = <<>>] = [l EXCEPT !.results = <<>>]
            /\ Len(t.results) = Len(l.results)
            /\ t.kind # "die" => t = l
            /\ {Frame(t.results[j]) : j \in 1..Len(t.results)}
                 = {Frame(l.results[j]) : j \in 1..Len(l.results)}

C20_Witness ==
  /\ subst.phase = "done"
  /\ \E i \in DieTerms :
       /\ HasGroup(i)
       /\ Len(GroupOf(i)) > Len(subst.terms[i].results)
       /\ ResultValues(subst.terms[i].results) # ResultValues(subst.local[i].results)
  /\ \E i \in 1..Len(subst.terms) : subst.terms[i].kind = "operator"

(***************************************************************************)
(* SpecOverride: Roll.prototype.evaluate as replaced by the override, for  *)
(* actors of every type and mode, next to the rolls RollBuilder builds.    *)
(* One roll is worked on at a time.                                        *)
(***************************************************************************)
ActorTypes == {"none", "npc", "character"}
DiceModes == {"unset", "normal", "manual", "ddb"}
OverrideFormulas == Formulas \cup {<<NumericTerm>>}

\* roll.terms.filter(t => t instanceof foundry.dice.terms.Die)
DiceTermsOf(formula) ==
  LET RECURSIVE Pick(_)
      Pick(i) == IF i > Len(formula) THEN <<>>
                 ELSE IF formula[i].kind = "die" THEN <<i>> \o Pick(i + 1)
                 ELSE Pick(i + 1)
  IN Pick(1)

\* _extractResultsFromForm, and the cache path of promptForDDBDice: one
\* group per die term with one value per die, within the faces of the die
PromptResults(formula) ==
  {[g \in 1..Len(DiceTermsOf(formula)) |-> l[DiceTermsOf(formula)[g]]] :
     l \in LocalRolls(formula)}

\* _handleEvaluate(roll, options) up to its first await
HandleEvaluateMode(actorType, diceMode, formula) ==
  LET mode == DiceModeOf(actorType, diceMode)
      started == [NoOverride EXCEPT !.actorType = actorType, !.diceMode = diceMode,
                                    !.formula = formula]
  IN
  /\ override.pc = "idle"
  /\ subst.phase = "none"
  /\ override' =
       IF mode = "manual" /\ Len(DiceTermsOf(formula)) > 0
       THEN [started EXCEPT !.pc = "prompt", !.prompted = "manual"]
       ELSE IF mode = "ddb"
       THEN [started EXCEPT !.pc = "prompt", !.prompted = "ddb"]
       ELSE [started EXCEPT !.pc = "evaluate"]
  /\ UNCHANGED subst

\* promptForManualDice or promptForDDBDice resolves: null ("Roll Normally")
\* or the results of the form or of the cache
PromptReturns(answered, results) ==
  /\ override.pc = "prompt"
  /\ answered = "null" => results = <<>>
  /\ override' = [override EXCEPT !.pc = "evaluate", !.answered = answered,
                                  !.results = results]
  /\ UNCHANGED subst

\* originalRollEvaluate.call(roll, options) and what follows it: after
\* results, _substituteDiceResults and roll._total = roll._evaluateTotal()
OriginalRollEvaluate(locals) ==
  LET evaluated == EvaluateRoll(override.formula, locals)
      r == SubstituteDDBResults(evaluated, override.results)
  IN
  /\ override.pc = "evaluate"
  /\ override' =
       IF HasResults(override.answered)
       THEN [override EXCEPT !.pc = IF r.threw THEN "threw" ELSE "returned",
                             !.calls = @ + 1, !.substitutions = @ + 1,
                             !.local = evaluated, !.terms = r.terms,
                             !.total = IF r.threw THEN RollTotal(evaluated)
                                       ELSE EvaluateTotal(r.terms, RollTotal(evaluated))]
       ELSE [override EXCEPT !.pc = "returned", !.calls = @ + 1,
                             !.local = evaluated, !.terms = evaluated,
                             !.total = RollTotal(evaluated)]
  /\ UNCHANGED subst

\* the caller of roll.evaluate() has its roll, or the error
EvaluateDone ==
  /\ override.pc \in {"returned", "threw"}
  /\ override' = NoOverride
  /\ UNCHANGED subst

NextOverride ==
  /\ \/ /\ override.pc = "idle"
        /\ \/ /\ subst.phase = "none"
              /\ \E formula \in Formulas : \E locals \in LocalRolls(formula) :
                   BuildRoll(formula, locals)
           \/ \E ddbDiceResults \in GroupLists : Substitute(ddbDiceResults)
           \/ ReturnRoll
        /\ UNCHANGED override
     \/ /\ override.pc = "idle"
        /\ \E actorType \in ActorTypes, diceMode \in DiceModes,
              formula \in OverrideFormulas :
             HandleEvaluateMode(actorType, diceMode, formula)
     \/ /\ override.pc = "prompt"
        /\ \/ PromptReturns("null", <<>>)
           \/ \E results \in PromptResults(override.formula) :
                PromptReturns("results", results)
     \/ /\ override.pc = "evaluate"
        /\ \E locals \in LocalRolls(override.formula) : OriginalRollEvaluate(locals)
     \/ EvaluateDone
  /\ UNCHANGED <<processedMessageIds, deliveries, bridgeVars, dispatcherVars, marks,
                 now, timerDue, cacheLog, transport, parse, wire>>

SpecOverride == Init /\ [][NextOverride]_vars

\* C21: on every path that substitutes external values, the builder's and
\* the override's after manual or remote results, the total of the roll
\* handed back is the total of its outcome values after substitution.
C21_TotalRecomputed ==
  /\ subst.phase = "done" => subst.total = RollTotal(subst.terms)
  /\ (override.pc = "returned" /\ override.substitutions > 0)
     => override.total = RollTotal(override.terms)

C21_Witness ==
  /\ override.pc = "returned"
  /\ override.prompted = "ddb"
  /\ override.substitutions = 1
  /\ override.total # RollTotal(override.local)

\* the fast path: no character actor, or a character in normal mode
FastPath ==
  override.actorType # "character" \/ override.diceMode \in {"unset", "normal"}

\* C25: for an actor that is no player character, whatever its flag, and for
\* a character whose flag is normal or unset, the override opens no prompt
\* (hence no subscription, no cache read), substitutes nothing and returns
\* what exactly one call of the unmodified evaluator produced.
C25_FastPathUntouched ==
  (override.pc # "idle" /\ FastPath) =>
    /\ override.pc \in {"evaluate", "returned"}
    /\ override.prompted = "none"
    /\ override.substitutions = 0
    /\ override.calls = IF override.pc = "returned" THEN 1 ELSE 0
    /\ override.pc = "returned" =>
         /\ override.terms = override.local
         /\ override.total = RollTotal(override.local)

C25_Witness ==
  /\ override.pc = "returned"
  /\ override.actorType = "npc"
  /\ override.diceMode = "ddb"
  /\ Len(DiceTermsOf(override.formula)) > 0

\* C26: when a manual or remote prompt returns no values, the roll returned
\* is the one of exactly one call of the unmodified evaluator: nothing is
\* substituted and the total is the local one.
C26_CancelKeepsLocalRoll ==
  (override.pc \in {"returned", "threw"} /\ override.answered = "null") =>
    /\ override.pc = "returned"
    /\ override.calls = 1
    /\ override.substitutions = 0
    /\ override.terms = override.local
    /\ override.total = RollTotal(override.local)

C26_Witness ==
  /\ override.pc = "returned"
  /\ override.answered = "null"
  /\ override.prompted = "manual"
  /\ Len(override.terms) > 1

\* C35: in manual and in remote mode the local evaluator has completed by
\* the time the prompt is opened (and the cache and the subscriptions are
\* consulted).
C35_EvaluatedBeforePrompt ==
  override.pc = "prompt" => override.calls > 0

\* C40: an evaluation of a roll without die terms opens no prompt, in
\* remote mode as in manual mode: it waits for no remote roll.
C40_NoPromptWithoutDice ==
  override.pc = "prompt" => Len(DiceTermsOf(override.formula)) > 0

(***************************************************************************)
(* SpecFormula: payloads are parsed into a formula by DiceExtractor, and   *)
(* the formula into a roll by the local evaluator.                         *)
(***************************************************************************)
RollKinds == {NoText, "advantage", "Advantage", "disadvantage"}
DieSets ==
  [dieType : DieTypes \cup {NoText}, dice : 0..MaxSetDice, count : {0, MaxSetDice}]
SetLists == UNION {[1..n -> DieSets] : n \in 0..MaxSets}
ValueCounts == {NoValues, 1, 2}
PayloadConstants == {0, 3}
Modifiers == {0, 7, -1}

Payloads ==
  {NoPayload} \cup
  {[NoPayload EXCEPT !.rolls = TRUE, !.rollKind = k] : k \in RollKinds} \cup
  [rolls : {TRUE}, rollKind : RollKinds, diceNotation : {TRUE}, set : SetLists,
   values : ValueCounts, constant : PayloadConstants]

\* const ddbDiceResults = this.diceExtractor.extractDiceResults(rollData);
\* const buildFormula = this.diceExtractor.parseDiceFormula(rollData, modifier)
ParseCall(rollData, modifier) ==
  /\ parse.phase = "none"
  /\ parse' = [NoParse EXCEPT !.phase = "parsed", !.rollData = rollData,
                              !.modifier = modifier,
                              !.result = ParseDiceFormula(rollData, modifier),
                              !.groups = ExtractDiceGroups(rollData)]

\* new Roll(formula) in buildRollWithDDBResults
NewRoll ==
  /\ parse.phase = "parsed"
  /\ parse' = [parse EXCEPT !.phase = "built",
                            !.terms = ParseFormula(parse.result.formula)]

\* the handler is done with the roll
RollDone ==
  /\ parse.phase = "built"
  /\ parse' = NoParse

NextFormula ==
  /\ \/ /\ parse.phase = "none"
        /\ \E rollData \in Payloads, modifier \in Modifiers :
             ParseCall(rollData, modifier)
     \/ NewRoll
     \/ RollDone
  /\ UNCHANGED <<processedMessageIds, deliveries, bridgeVars, dispatcherVars, marks,
                 now, timerDue, cacheLog, transport, subst, override,
                 wire>>

SpecFormula == Init /\ [][NextFormula]_vars

\* the payload reached the loop over its die sets
Parsed == parse.phase # "none" /\ parse.rollData.rolls /\ parse.rollData.diceNotation

\* C37: the groups extractDiceResults returns and the terms parseDiceFormula
\* returns for the same payload agree by position: as many groups as terms,
\* and the i-th group has the die type of the i-th term and as many results
\* as the term has dice.
C37_PositionalAgreement ==
  parse.phase # "none" =>
    /\ Len(parse.groups) = Len(parse.result.terms)
    /\ \A i \in 1..Len(parse.groups) :
         /\ parse.groups[i].dieType = parse.result.terms[i].dieType
         /\ parse.groups[i].results = parse.result.terms[i].count

\* the parsed formula is the terms of the result, joined, and the suffix
FormulaOfTerms ==
  \E constant \in Modifiers \cup PayloadConstants :
    parse.result.formula =
      JoinChars([i \in 1..Len(parse.result.terms) |-> TermChars(parse.result.terms[i])])
      \o SuffixChars(constant)

AdvantageExample ==
  /\ parse.rollData.rollKind = "advantage"
  /\ parse.rollData.set = <<[dieType |-> "d20", dice |-> 2, count |-> 0]>>
  /\ parse.rollData.values = NoValues
  /\ parse.modifier = 7

\* the original C22: a keep operator for every set of more than one die
C22_KeepForEverySet ==
  Parsed =>
    \A i \in 1..Len(parse.result.terms) :
      LET t == parse.result.terms[i] IN
      t.modifier = IF t.count > 1 /\ parse.result.isAdvantage THEN "kh1"
                   ELSE IF t.count > 1 /\ parse.result.isDisadvantage THEN "kl1"
                   ELSE NoText

\* C22 (amended): for each die set, parseDiceFormula appends kh1 to the
\* set's term when the set is a d20 set of more than one die and rollKind is
\* advantage, kl1 when it is such a set and rollKind is disadvantage, and no
\* keep operator otherwise; an advantage roll with one d20 set of two
\* delivered dice and modifier 7 yields "2d20kh1+7".
C22_KeepForD20Sets ==
  Parsed =>
    /\ Len(parse.result.terms) = Len(parse.rollData.set)
    /\ FormulaOfTerms
    /\ \A i \in 1..Len(parse.result.terms) :
         LET t == parse.result.terms[i]
             many == t.dieType = "d20" /\ t.count > 1
         IN t.modifier = IF many /\ parse.result.isAdvantage THEN "kh1"
                         ELSE IF many /\ parse.result.isDisadvantage THEN "kl1"
                         ELSE NoText
    /\ AdvantageExample =>
         parse.result.formula = <<"2", "d", "2", "0", "k", "h", "1", "+", "7">>

C22_Witness ==
  /\ Parsed
  /\ parse.result.isAdvantage
  /\ Len(parse.result.terms) = 2
  /\ parse.result.terms[1].modifier = "kh1"
  /\ parse.result.terms[2].dieType = "d6"
  /\ parse.result.terms[2].count = 2

\* the die terms the evaluator made of the formula
BuiltDice ==
  LET RECURSIVE Pick(_)
      Pick(i) == IF i > Len(parse.terms) THEN <<>>
                 ELSE IF parse.terms[i].kind = "die" THEN <<parse.terms[i]>> \o Pick(i + 1)
                 ELSE Pick(i + 1)
  IN Pick(1)

\* C23: the formula parseDiceFormula produces is parsed by the evaluator
\* into one die term per die set, in set order, each with the count and
\* the die type of the returned terms list.
C23_OneDieTermPerSet ==
  (parse.phase = "built" /\ Parsed) =>
    /\ Len(BuiltDice) = Len(parse.result.terms)
    /\ \A i \in 1..Len(BuiltDice) :
         /\ BuiltDice[i].number = parse.result.terms[i].count
         /\ <<"d">> \o Digits(BuiltDice[i].faces)
              = DieTypeChars(parse.result.terms[i].dieType)

\* C24: for every modifier N passed to parseDiceFormula the formula ends
\* with N as a signed suffix, +N from 0 up and N below, whatever constant
\* the payload carries.
C24_ModifierSuffix ==
  Parsed =>
    LET suffix == SuffixChars(parse.modifier)
        formula == parse.result.formula
    IN /\ Len(formula) >= Len(suffix)
       /\ SubSeq(formula, Len(formula) - Len(suffix) + 1, Len(formula)) = suffix

(***************************************************************************)
(* SpecDedup: MessageDeduplicator called directly, with new keys and with  *)
(* keys marked before.  marks logs the calls: the key and whether          *)
(* isProcessed was false for it when the call was made.                    *)
(***************************************************************************)
DedupKey(i) == <<"unknown", UpdateEvent, i>>

NextKey == Cardinality({marks[i].key : i \in 1..Len(marks)}) + 1

MarkProcessedCall(i) ==
  /\ processedMessageIds' = MarkProcessed(processedMessageIds, DedupKey(i))
  /\ marks' = Append(marks, [key |-> DedupKey(i),
                             added |-> ~IsProcessed(processedMessageIds, DedupKey(i))])
  /\ UNCHANGED <<deliveries, bridgeVars, dispatcherVars, sideVars>>

RemarkKeys == {1}

NextDedup ==
  \/ \E i \in 1..MaxKeys : i = NextKey /\ MarkProcessedCall(i)
  \/ \E i \in RemarkKeys :
        /\ i < NextKey
        /\ Len(marks) - (NextKey - 1) < MaxRemarks
        /\ MarkProcessedCall(i)

SpecDedup == Init /\ [][NextDedup]_vars

LastN(seq, n) ==
  IF Len(seq) <= n THEN seq ELSE SubSeq(seq, Len(seq) - n + 1, Len(seq))

\* C3: a message whose key is in the history when it is delivered is not
\* dispatched, whatever dispatches are still awaiting their handler, and
\* between two dispatches of one key at least 50 other distinct keys were
\* marked.
C3_Arrival ==
  LET n == Len(deliveries) + 1 IN
  (Len(deliveries') = n /\
   IsProcessed(processedMessageIds, CreateMessageKey(deliveries'[n].message)))
  => /\ deliveries'[n].duplicate
     /\ deliveries'[n].handler = NoText
     /\ deliveries'[n].pc = "done"
     /\ \A m \in 1..Len(deliveries) : deliveries'[m] = deliveries[m]

KeysBetween(m, n) ==
  {CreateMessageKey(deliveries[j].message) :
     j \in {i \in (m + 1)..(n - 1) : ~deliveries[i].duplicate}}

C3_Redispatch ==
  \A m, n \in 1..Len(deliveries) :
    (/\ m < n
     /\ ~deliveries[m].duplicate /\ ~deliveries[n].duplicate
     /\ CreateMessageKey(deliveries[m].message) = CreateMessageKey(deliveries[n].message))
    => Cardinality(KeysBetween(m, n) \ {CreateMessageKey(deliveries[m].message)})
         >= maxHistorySize

Unsettled(messageKey) ==
  \E m \in 1..Len(deliveries) :
    /\ CreateMessageKey(deliveries[m].message) = messageKey
    /\ ~deliveries[m].duplicate
    /\ deliveries[m].pc = "awaitHandler" \/ deliveries[m].outcome = "throw"

\* C38: handleDDBMessage marks the key before it dispatches: a message that
\* is dispatched has its key in the history by the time its handler awaits;
\* a handler that returns or throws leaves the history as it is; and a
\* message delivered while its key is in the history and an earlier dispatch
\* of the key is in flight or has thrown is a duplicate and reaches no
\* handler.
C38_Step ==
  LET n == Len(deliveries) + 1 IN
  IF Len(deliveries') = n
  THEN LET d == deliveries'[n]
           messageKey == CreateMessageKey(d.message)
           Holds(history) == \E i \in 1..Len(history) : history[i] = messageKey
       IN /\ ~d.duplicate => Holds(processedMessageIds')
          /\ (Holds(processedMessageIds) /\ Unsettled(messageKey))
             => (d.duplicate /\ d.handler = NoText /\ d.pc = "done"
                 /\ processedMessageIds' = processedMessageIds)
  ELSE processedMessageIds' = processedMessageIds

C38_MarkedBeforeDispatch == [][C38_Step]_vars

\* the handler of the first dispatch threw, both redeliveries of its key were
\* duplicates, and the key is still in the history
C38_Witness ==
  /\ Len(deliveries) >= 3
  /\ ~deliveries[1].duplicate /\ deliveries[1].outcome = "throw"
  /\ \E m, n \in 2..Len(deliveries) :
       /\ m < n
       /\ deliveries[m].message = deliveries[1].message /\ deliveries[m].duplicate
       /\ deliveries[n].message = deliveries[1].message /\ deliveries[n].duplicate
  /\ IsProcessed(processedMessageIds, CreateMessageKey(deliveries[1].message))

(***************************************************************************)
(* Properties of the deduplicator (SpecDedup).                             *)
(***************************************************************************)
KeysAfter(i) == {marks[j].key : j \in (i + 1)..Len(marks)}

InsertedKeys ==
  LET ins == SelectSeq(marks, LAMBDA c : c.added)
  IN [i \in 1..Len(ins) |-> ins[i].key]

Events == {"roll", "update"}

\* the methods of the IMessageHandler and IRollHandler interfaces
Methods == {"canHandle", "handle", "usesCache"}

\* the handlers that implement the interface
HandlerKinds ==
  [canHandle : SUBSET Events, handle : {"ok", "throw"}, usesCache : BOOLEAN,
   methods : {Methods}]

\* an object without a handle method
NoHandle ==
  [canHandle |-> {}, handle |-> "missing", usesCache |-> FALSE,
   methods |-> {"canHandle", "usesCache"}]

\* registerHandler: throws for an object without canHandle or handle
RegisterHandler(handler) ==
  /\ Len(handlers) < MaxHandlers
  /\ handlers' = IF {"canHandle", "handle"} \subseteq handler.methods
                 THEN Append(handlers, handler)
                 ELSE handlers
  /\ UNCHANGED <<processedMessageIds, deliveries, bridgeVars, lastDispatch, marks,
                 sideVars>>

NoDispatch(invoked) ==
  [invoked |-> invoked, result |-> "false", cached |-> FALSE, missing |-> NoText,
   consulted |-> 0]

\* a dispatch that goes on to the next handler after a handler has run
DispatchEvery(hs, i, event, cache, invoked) ==
  LET RECURSIVE Go(_, _)
      Go(j, inv) ==
        IF j > Len(hs) THEN NoDispatch(inv)
        ELSE IF event \in hs[j].canHandle THEN Go(j + 1, Append(inv, j))
        ELSE Go(j + 1, inv)
      out == Go(i, invoked)
  IN [out EXCEPT !.result = IF out.invoked = <<>> THEN "false" ELSE "true",
                 !.consulted = Len(hs)]

\* dispatch, from the i-th handler on: the first handler whose canHandle
\* accepts the event is (for a roll) asked usesCache and its handle is
\* awaited; dispatch returns true, or rethrows what handle threw; it
\* returns false past the last handler.  cache: "none" when usesCache is
\* not asked, "bridge" when it is asked and a bridge was passed, "asked"
\* when it is asked without a bridge.  Asking an object that has no
\* usesCache is a TypeError inside the try block: it is rethrown before
\* handle is called.  consulted: the handlers whose canHandle was called.
RECURSIVE DispatchFrom(_, _, _, _, _)
DispatchFrom(hs, i, event, cache, invoked) ==
  IF i > Len(hs) THEN [NoDispatch(invoked) EXCEPT !.consulted = Len(hs)]
  ELSE IF event \in hs[i].canHandle
  THEN IF cache # "none" /\ "usesCache" \notin hs[i].methods
       THEN [invoked |-> invoked, result |-> "threw", cached |-> FALSE,
             missing |-> "usesCache", consulted |-> i]
       ELSE [invoked |-> Append(invoked, i),
             result |-> IF hs[i].handle = "ok" THEN "true" ELSE "threw",
             cached |-> cache = "bridge" /\ hs[i].usesCache,
             missing |-> NoText, consulted |-> i]
  ELSE DispatchFrom(hs, i + 1, event, cache, invoked)

\* what the dispatcher does about usesCache
CacheMode(dispatcher, bridge) ==
  IF dispatcher = "MessageDispatcher" THEN "none"
  ELSE IF bridge THEN "bridge" ELSE "asked"

Dispatched(dispatcher, event, bridge) ==
  /\ lastDispatch' =
       [dispatcher |-> dispatcher, event |-> event, bridge |-> bridge,
        handlers |-> handlers] @@
       DispatchFrom(handlers, 1, event, CacheMode(dispatcher, bridge), <<>>)
  /\ UNCHANGED <<processedMessageIds, deliveries, bridgeVars, handlers, marks,
                 sideVars>>

\* MessageDispatcher.dispatch(message)
DispatchMessage(event) == Dispatched("MessageDispatcher", event, FALSE)

\* RollStrategyDispatcher.dispatch(actor, rollData, diceRollMessageHandler)
DispatchRoll(event, bridge) == Dispatched("RollStrategyDispatcher", event, bridge)

NextDispatch ==
  \/ \E handler \in HandlerKinds \cup {NoHandle} : RegisterHandler(handler)
  \/ \E event \in Events : DispatchMessage(event)
  \/ \E event \in Events, bridge \in BOOLEAN : DispatchRoll(event, bridge)

SpecDispatch == Init /\ [][NextDispatch]_vars

\* the handlers of the last dispatch that accept its event
Matching ==
  {i \in 1..Len(lastDispatch.handlers) :
     lastDispatch.event \in lastDispatch.handlers[i].canHandle}

NoCanHandle ==
  [canHandle |-> {}, handle |-> "ok", usesCache |-> FALSE,
   methods |-> {"handle", "usesCache"}]

\* an object with canHandle and handle but no usesCache
NoUsesCache ==
  [canHandle |-> {"roll"}, handle |-> "ok", usesCache |-> FALSE,
   methods |-> {"canHandle", "handle"}]

Offered == HandlerKinds \cup {NoHandle, NoCanHandle, NoUsesCache}

ContractMessages == [eventType : Events, id : MessageIds]

\* a call that did not reach dispatch
NotDispatched ==
  [dispatcher |-> "none", event |-> NoText, bridge |-> FALSE, handlers |-> <<>>] @@
  [NoDispatch(<<>>) EXCEPT !.result = "none"]

\* a caller without try/catch: what dispatch throws rejects the call
Uncaught(result, notifies) ==
  [outcome |-> IF result = "threw" THEN "rejected" ELSE "returned",
   logged |-> FALSE, notified |-> FALSE]

\* try { ... await dispatch(...) } catch (err) { log; notify }: the call
\* returns whatever dispatch did
Catch(result, notifies) ==
  [outcome |-> "returned", logged |-> result = "threw",
   notified |-> notifies /\ result = "threw"]

Call(caller, messageKey, duplicate, dispatch, notifies) ==
  [caller |-> caller, key |-> messageKey, duplicate |-> duplicate,
   dispatch |-> dispatch] @@ Catch(dispatch.result, notifies)

DispatchOf(dispatcher, event, bridge) ==
  [dispatcher |-> dispatcher, event |-> event, bridge |-> bridge,
   handlers |-> handlers] @@
  DispatchFrom(handlers, 1, event, CacheMode(dispatcher, bridge), <<>>)

\* handleDDBMessage over any registered handlers, to its return
HandleMessageCall(message) ==
  LET messageKey == CreateMessageKey(message)
      dispatch == DispatchOf("MessageDispatcher", message.eventType, FALSE)
  IN
  /\ Len(deliveries) < MaxCalls
  /\ IF IsProcessed(processedMessageIds, messageKey)
     THEN /\ deliveries' = Append(deliveries,
                 Call("handleDDBMessage", messageKey, TRUE, NotDispatched, FALSE))
          /\ UNCHANGED <<processedMessageIds, lastDispatch>>
     ELSE /\ processedMessageIds' = MarkProcessed(processedMessageIds, messageKey)
          /\ lastDispatch' = dispatch
          /\ deliveries' = Append(deliveries,
                 Call("handleDDBMessage", messageKey, FALSE, dispatch, FALSE))
  /\ UNCHANGED <<bridgeVars, handlers, marks, sideVars>>

\* DiceRollHandler.handleRoll(actor, rollData, diceRollMessageHandler)
HandleRollCall(event, bridge) ==
  LET dispatch == DispatchOf("RollStrategyDispatcher", event, bridge) IN
  /\ Len(deliveries) < MaxCalls
  /\ lastDispatch' = dispatch
  /\ deliveries' = Append(deliveries, Call("handleRoll", <<>>, FALSE, dispatch, TRUE))
  /\ UNCHANGED <<processedMessageIds, bridgeVars, handlers, marks, sideVars>>

NextContract ==
  \/ \E handler \in Offered : RegisterHandler(handler)
  \/ \E message \in ContractMessages : HandleMessageCall(message)
  \/ \E event \in Events, bridge \in BOOLEAN : HandleRollCall(event, bridge)

SpecContract == Init /\ [][NextContract]_vars

\* C29: registerHandler rejects every object that lacks a method dispatch
\* later calls on it, so no dispatch fails because a registered handler
\* has no canHandle, handle or (roll dispatcher) usesCache.
C29_NeverAtDispatch ==
  \A n \in 1..Len(deliveries) : deliveries[n].dispatch.missing = NoText

\* the first handler of a dispatch whose canHandle accepts the event
FirstAccepting(d) ==
  FirstMatch([i \in 1..Len(d.handlers) |-> d.event \in d.handlers[i].canHandle])

\* the call was made after a call whose dispatch threw
AfterFailure(n) ==
  \E k \in 1..(n - 1) : deliveries[k].dispatch.result = "threw"

\* C30: when the action of the selected handler throws, dispatch throws to
\* its caller with no handler after the selected one consulted or invoked;
\* handleDDBMessage and handleRoll catch and log it (handleRoll notifies)
\* and return; and whatever failed before, a message is skipped only if
\* its key was delivered before, every other call being dispatched to the
\* first accepting handler as if nothing had failed.
C30_FailureStopsOneEvent ==
  \A n \in 1..Len(deliveries) :
    LET c == deliveries[n]
        d == c.dispatch
        m == FirstAccepting(d)
    IN
    /\ c.outcome = "returned"
    /\ c.duplicate <=>
         /\ c.caller = "handleDDBMessage"
         /\ \E k \in 1..(n - 1) :
              deliveries[k].caller = c.caller /\ deliveries[k].key = c.key
    /\ ~c.duplicate =>
         /\ d.dispatcher # "none"
         /\ d.consulted = IF m = 0 THEN Len(d.handlers) ELSE m
         /\ m = 0 => d.result = "false" /\ d.invoked = <<>>
         /\ (m # 0 /\ d.missing = NoText) =>
              /\ d.invoked = <<m>>
              /\ d.result = IF d.handlers[m].handle = "ok" THEN "true" ELSE "threw"
         /\ c.logged <=> d.result = "threw"
         /\ c.notified <=> (c.caller = "handleRoll" /\ d.result = "threw")

\* a handler throws with a later handler accepting the same event, and the
\* next message, with a new key, is handled by that later handler
C30_Witness ==
  /\ Len(deliveries) = 2
  /\ LET d == deliveries[1].dispatch
         m == FirstAccepting(d)
     IN /\ m # 0
        /\ d.missing = NoText
        /\ d.handlers[m].handle = "throw"
        /\ \E j \in (m + 1)..Len(d.handlers) : d.event \in d.handlers[j].canHandle
        /\ d.result = "threw"
  /\ deliveries[2].caller = "handleDDBMessage"
  /\ ~deliveries[2].duplicate
  /\ AfterFailure(2)
  /\ deliveries[2].dispatch.result = "true"
  /\ FirstAccepting(deliveries[2].dispatch) > FirstAccepting(deliveries[1].dispatch)

(***************************************************************************)
(* SpecLive: Spec with the scheduling the event loop and the claim's       *)
(* proviso give: a settled promise's continuation runs, a rendered dialog  *)
(* gets its listener, and the user eventually acts on an open dialog.      *)
(***************************************************************************)
UserActs(e) == ConfirmDialog(e) \/ CancelDialog(e) \/ DismissDialog(e)

SpecLive ==
  /\ Init /\ [][Next]_vars
  /\ \A e \in Evals : WF_vars(TaskReady /\ DialogRendered(e) /\ UNCHANGED sideVars)
  /\ \A e \in Evals : WF_vars(TaskReady /\ UserActs(e) /\ UNCHANGED sideVars)
  /\ \A e \in Evals : WF_vars(EvaluateReturn(e) /\ UNCHANGED sideVars)
  /\ \A n \in 1..MaxMsgs :
       WF_vars(n <= Len(deliveries) /\ ResumeCallback(n) /\ UNCHANGED sideVars)

(***************************************************************************)
(* Properties.                                                             *)
(***************************************************************************)
RollDelivery(d) == ~d.duplicate /\ d.handler = "DiceRollMessageHandler"

\* the loop of handle over its snapshot is over
LoopOver(d) == d.pc # "awaitCallback"

Trues(d) == {i \in 1..Len(d.invoked) : d.invoked[i].result = "true"}

InFlight == {n \in 1..Len(deliveries) : deliveries[n].pc # "done"}

\* the delivery n ends the loop over its snapshot in this step
EndsLoop(n) ==
  /\ n \in 1..Len(deliveries')
  /\ RollDelivery(deliveries'[n])
  /\ LoopOver(deliveries'[n])
  /\ IF n \in 1..Len(deliveries) THEN ~LoopOver(deliveries[n]) ELSE TRUE

SameExpectation(a, b) ==
  /\ a.kind = "dialog" /\ b.kind = "dialog"
  /\ a.once /\ b.once
  /\ a.ddbCharacterId = b.ddbCharacterId
  /\ a.diceTerms = b.diceTerms

TwoPendingOneMatch(d) ==
  /\ RollDelivery(d)
  /\ Len(d.callbacks) = 2
  /\ SameExpectation(d.callbacks[1], d.callbacks[2])
  /\ DialogHandlerResult(d.callbacks[1], d.message)

\* C1: when the once subscriptions of two dialogs with the same entity and
\* the same expected dice are pending and one matching roll is delivered
\* to handle, exactly one of the two handlers returns true (and only that
\* subscription is removed); the other returns false.
C1_SingleConsumption ==
  \A n \in 1..Len(deliveries) :
    LET d == deliveries[n] IN
    (TwoPendingOneMatch(d) /\ Len(d.invoked) = 2)
      => Cardinality(Trues(d)) = 1

\* C2: if a roll is cached under (entity, action) when promptForDDBDice is
\* called for that entity and item name, the prompt resolves in that call
\* with the cached entry, the entry is gone afterwards, and the pending
\* list is the same before and after; that evaluation never subscribes.
C2_PromptStep(e) ==
  (/\ evals[e].st = "idle" /\ evals'[e].st # "idle"
   /\ HasCachedRoll(cachedRolls, evals'[e].ddbCharacterId, evals'[e].itemName))
  => /\ evals'[e].st = "resolved"
     /\ evals'[e].ddbResults = "cache"
     /\ evals'[e].source =
          cachedRolls[CacheKey(evals'[e].ddbCharacterId, evals'[e].itemName)]
     /\ ~HasCachedRoll(cachedRolls', evals'[e].ddbCharacterId, evals'[e].itemName)
     /\ pendingRollCallbacks' = pendingRollCallbacks
     /\ nextSubId' = nextSubId

C2_CacheFirst ==
  /\ [][\A e \in Evals : C2_PromptStep(e)]_vars
  /\ [](\A e \in Evals : evals[e].ddbResults = "cache" => ~evals[e].subscribed)

C2_Witness ==
  \E e \in Evals : evals[e].st = "resolved" /\ evals[e].ddbResults = "cache"

\* C6 as claimed: at most one message is in dispatch at any time.
C6_OneAtATime == Cardinality(InFlight) <= 1

NewKeys ==
  LET new == SelectSeq(deliveries, LAMBDA d : ~d.duplicate)
  IN [i \in 1..Len(new) |-> CreateMessageKey(new[i].message)]

\* C6 as amended: messages are marked and their dispatch is started in
\* arrival order, each on its own arrival and without waiting for the
\* dispatches started before it, which may still be awaiting their handler;
\* only a message whose key is in the history is skipped.  So the history
\* is the last 50 keys dispatched, in arrival order, a skipped delivery has
\* no handler, and an arrival leaves the dispatches in flight as they are.
C6_Arrival(n) ==
  (n = Len(deliveries) + 1 /\ Len(deliveries') = n)
  => /\ \A m \in 1..Len(deliveries) : deliveries'[m] = deliveries[m]
     /\ ~deliveries'[n].duplicate =>
          processedMessageIds'[Len(processedMessageIds')] =
            CreateMessageKey(deliveries'[n].message)

C6_ArrivalOrder ==
  /\ [](processedMessageIds = LastN(NewKeys, maxHistorySize))
  /\ [](\A n \in 1..Len(deliveries) :
          deliveries[n].duplicate =>
            deliveries[n].pc = "done" /\ deliveries[n].handler = NoText)
  /\ [][\A n \in 1..MaxMsgs : C6_Arrival(n)]_vars

C6_Witness ==
  /\ Cardinality(InFlight) = 2
  /\ \A n \in InFlight : ~deliveries[n].duplicate

\* C7: every evaluation that opens the remote prompt eventually returns,
\* given that the user eventually confirms, cancels or dismisses the
\* dialog, and when it has returned its subscription is not pending.
C7_NoDeadlock ==
  /\ \A e \in Evals : (evals[e].st = "rendering") ~> (evals[e].st = "returned")
  /\ [](\A e \in Evals :
          (evals[e].st = "returned" /\ evals[e].subscribed)
            => ~IsPending(pendingRollCallbacks, evals[e].subscriptionId))

\* a roll event that passed deduplication, carries a roll type and belongs to
\* a mapped entity
Eligible(n) ==
  /\ n <= Len(deliveries)
  /\ RollDelivery(deliveries[n])
  /\ deliveries[n].message.rollType # NoText
  /\ FindActorByDDBId(deliveries[n].message.entityId)

\* its values were substituted into an evaluation (the prompt resolved with
\* the form the roll filled), or it went to DiceRollHandler.handleRoll
Applied(n) ==
  /\ n <= Len(deliveries)
  /\ \/ deliveries[n].routed
     \/ \E e \in Evals : /\ evals[e].st = "resolved"
                          /\ evals[e].ddbResults = "form"
                          /\ evals[e].source = <<deliveries[n].message>>

\* dropped by the processing guard, or delivered in a run where a dialog was
\* closed without a button (its subscription is never removed)
Excused(n) ==
  /\ n <= Len(deliveries)
  /\ \/ deliveries[n].guarded
     \/ \E e \in Evals : evals[e].st = "dismissed"

\* C39: no remote roll is lost: every roll event that passes deduplication,
\* carries a roll type and belongs to a mapped entity is eventually applied,
\* by substitution into a local evaluation or by a roll strategy, also when
\* a subscription consumed it and its prompt is cancelled afterwards (rolls
\* dropped by the processing guard, and runs in which a dialog is closed
\* without a button, are not counted against the claim here).
C39_NoRollLost ==
  \A n \in 1..MaxMsgs : Eligible(n) ~> (Applied(n) \/ Excused(n))

\* C8: a roll that a subscription handler consumed is never forwarded to
\* DiceRollHandler.handleRoll and never cached by the strategy dispatcher.
C8_ConsumedNotForwarded ==
  \A n \in 1..Len(deliveries) :
    LET d == deliveries[n] IN
    (RollDelivery(d) /\ Trues(d) # {}) => (~d.routed /\ ~d.cached)

C8_Witness ==
  \E n \in 1..Len(deliveries) :
    /\ RollDelivery(deliveries[n])
    /\ Trues(deliveries[n]) # {}
    /\ deliveries[n].pc = "done"
    /\ deliveries[n].message.rollType = "to hit"

\* C9 as claimed: every roll that no subscription consumes is handed to
\* DiceRollHandler.handleRoll.
C9_AlwaysFallsThrough ==
  \A n \in 1..Len(deliveries) :
    LET d == deliveries[n] IN
    (RollDelivery(d) /\ LoopOver(d) /\ Trues(d) = {}) => d.routed

\* C9 as amended: a roll that no subscription consumes is handed to
\* handleRoll exactly when it carries a roll type, its entity has an actor
\* and its key (entityId, action, rollId) is not in the processing guard.
C9_Step(n) ==
  (EndsLoop(n) /\ Trues(deliveries'[n]) = {})
  => (deliveries'[n].routed <=>
        /\ deliveries'[n].message.rollType # NoText
        /\ deliveries'[n].message.entityId \in MappedEntities
        /\ RollKey(deliveries'[n].message) \notin processingRolls)

C9_FallsThroughUnlessGuarded == [][\A n \in 1..MaxMsgs : C9_Step(n)]_vars

C9_Witness ==
  \E m, n \in 1..Len(deliveries) :
    /\ deliveries[m].routed
    /\ RollDelivery(deliveries[n]) /\ deliveries[n].guarded

\* the deliveries of a roll with the key that are on the strategy path
OnStrategyPath(rollKey) ==
  {n \in 1..Len(deliveries) :
     /\ deliveries[n].routed
     /\ deliveries[n].pc = "awaitHandler"
     /\ RollKey(deliveries[n].message) = rollKey}

RollKeys == {RollKey(m) : m \in BridgeRolls}

\* delivery n is handed to DiceRollHandler.handleRoll in the step
Forwarded(n) ==
  /\ n <= Len(deliveries')
  /\ deliveries'[n].routed
  /\ n <= Len(deliveries) => ~deliveries[n].routed

\* the handling of delivery n completes in the step
Completed(n) ==
  /\ n <= Len(deliveries)
  /\ deliveries[n].routed
  /\ deliveries[n].pc = "awaitHandler"
  /\ deliveries'[n].pc = "done"

C33_Step ==
  /\ \A n \in 1..MaxMsgs :
       Forwarded(n) =>
         /\ OnStrategyPath(RollKey(deliveries'[n].message)) = {}
         /\ RollKey(deliveries'[n].message) \notin guardTimers
         /\ RollKey(deliveries'[n].message) \in processingRolls'
  /\ \A n \in 1..MaxMsgs :
       Completed(n) =>
         /\ RollKey(deliveries[n].message) \in processingRolls'
         /\ RollKey(deliveries[n].message) \in guardTimers'
  /\ \A rollKey \in processingRolls \ processingRolls' :
       /\ rollKey \in guardTimers
       /\ rollKey \notin guardTimers'
       /\ OnStrategyPath(rollKey) = {}

\* C33: a roll key is in the processing guard exactly while one delivery
\* with that key is being handled on the strategy path or the timeout set
\* at the end of such a handling (whatever its outcome) is pending; no
\* delivery with a guarded key is handed to handleRoll; the key leaves the
\* guard only when that timeout runs, and can then be handled again.
C33_GuardUntilTimeout ==
  /\ [](\A rollKey \in RollKeys :
          /\ Cardinality(OnStrategyPath(rollKey)) <= 1
          /\ rollKey \in processingRolls <=>
               (OnStrategyPath(rollKey) # {} \/ rollKey \in guardTimers)
          /\ ~(OnStrategyPath(rollKey) # {} /\ rollKey \in guardTimers))
  /\ [][C33_Step]_vars

\* a roll handled with an error, its guard removed by the timeout, and a
\* second delivery of the same key on the strategy path
C33_Witness ==
  /\ Len(deliveries) = 2
  /\ RollKey(deliveries[1].message) = RollKey(deliveries[2].message)
  /\ deliveries[1].routed /\ deliveries[1].pc = "done"
  /\ deliveries[1].outcome = "throw"
  /\ deliveries[2].routed /\ deliveries[2].pc = "awaitHandler"
  /\ guardTimers = {}

\* C10: handle calls the handler of every subscription pending at the
\* roll's arrival, in subscription order, whatever the earlier handlers
\* returned or threw, and a handler that throws has not consumed the roll.
C10_Inv ==
  \A n \in 1..Len(deliveries) :
    LET d == deliveries[n] IN
    RollDelivery(d) =>
      /\ Len(d.invoked) = IF LoopOver(d) THEN Len(d.callbacks) ELSE d.idx
      /\ \A i \in 1..Len(d.invoked) : d.invoked[i].id = d.callbacks[i].id
      /\ LoopOver(d) => (d.consumed <=> Trues(d) # {})

C10_Arrival(n) ==
  (n = Len(deliveries) + 1 /\ Len(deliveries') = n /\ RollDelivery(deliveries'[n]))
  => deliveries'[n].callbacks = pendingRollCallbacks

C10_EverySubscriberNotified ==
  /\ []C10_Inv
  /\ [][\A n \in 1..MaxMsgs : C10_Arrival(n)]_vars

C10_Witness ==
  \E n \in 1..Len(deliveries) :
    LET d == deliveries[n] IN
    /\ RollDelivery(d)
    /\ Len(d.invoked) = 2
    /\ d.invoked[1].result \in {"true", "throw"}
    /\ d.invoked[2].result = "true"
    /\ LoopOver(d)

\* the (delivery, position) pairs at which the handler of subscription id
\* returned true
Consumptions(id) ==
  {p \in {<<n, i>> : n \in 1..MaxMsgs, i \in 1..(MaxExtSubs + MaxSubsEvals)} :
     /\ p[1] <= Len(deliveries)
     /\ p[2] <= Len(deliveries[p[1]].invoked)
     /\ deliveries[p[1]].invoked[p[2]].id = id
     /\ deliveries[p[1]].invoked[p[2]].result = "true"
     /\ deliveries[p[1]].callbacks[p[2]].once}

C27_OnlyMatchingRolls ==
  \A e \in Evals :
    (evals[e].st = "resolved" /\ evals[e].ddbResults \in {"cache", "form"}) =>
      /\ evals[e].source # <<>>
      /\ evals[e].source[1].entityId = evals[e].ddbCharacterId
      /\ DoesRollMatchExpected(evals[e].source[1], evals[e].diceTerms)

\* the step in which the prompt of evaluation e is cancelled
Cancelled(e) ==
  /\ evals[e].st \in {"waiting", "ready"}
  /\ evals'[e].st = "resolved"
  /\ evals'[e].ddbResults = "null"

\* C28: when a remote-mode prompt is cancelled, its subscription leaves the
\* pending list and the cache holds no entry for its entity and action
\* before the evaluation returns.
C28_Step(e) ==
  Cancelled(e) =>
    /\ ~IsPending(pendingRollCallbacks', evals[e].subscriptionId)
    /\ ~HasCachedRoll(cachedRolls', evals[e].ddbCharacterId, evals[e].itemName)

C28_CancelCleansUp == [][\A e \in Evals : C28_Step(e)]_vars

(***************************************************************************)
(* SpecWire: the frames the sockets of the transport deliver.  onMessage   *)
(* parses the frame and switches on its eventType; a `message` event runs  *)
(* its listeners inside dispatchEvent: WebSocketManager forwards the       *)
(* detail and DDBSyncManager.handleDDBMessage dispatches it.  A frame      *)
(* is invalid JSON, the JSON text null, or an object with an eventType     *)
(* (or none) and a data member that is absent, an object or a primitive.   *)
(***************************************************************************)
WireEvents == {"authenticated", RollEvent, UpdateEvent, DamageEvent, "ping", NoText}

EmittedEvents == {RollEvent, UpdateEvent, DamageEvent}

Frames ==
  [json : {"invalid", "null"}, eventType : {NoText}, data : {"absent"}, id : {0},
   rollId : {0}, entityId : {NoEntity}]
  \cup [json : {"object"}, eventType : WireEvents \ {RollEvent},
        data : {"absent", "object", "primitive"}, id : {1}, rollId : {0},
        entityId : {NoEntity}]
  \cup [json : {"object"}, eventType : {RollEvent},
        data : {"absent", "object", "primitive"}, id : {1}, rollId : RollIds,
        entityId : EntityIds]

\* the detail of the `message` event: message.data || message, with the
\* eventType of the frame and, as id, the rollId (roll) or id of the frame
Detail(frame) ==
  IF frame.eventType = RollEvent
  THEN [eventType |-> frame.eventType, id |-> frame.rollId, rollId |-> frame.rollId,
        entityId |-> frame.entityId, action |-> "Fireball", rollType |-> "to hit",
        dice |-> D20]
  ELSE [eventType |-> frame.eventType, id |-> frame.id, rollId |-> 0,
        entityId |-> NoEntity, action |-> NoText, rollType |-> NoText, dice |-> <<>>]

\* JSON.parse throws, or a property is read of null or set on a primitive
\* (class bodies are strict code): the catch block logs and drops the frame
FrameThrows(frame) ==
  \/ frame.json \in {"invalid", "null"}
  \/ frame.eventType \in EmittedEvents /\ frame.data = "primitive"

FrameEmits(frame) ==
  frame.json = "object" /\ frame.eventType \in EmittedEvents /\ ~FrameThrows(frame)

\* send(data): only when this.ws is an open socket
Sends(t) == t.ws = "open"

\* the socket the frame arrives on is open: the one of this.ws or an
\* orphan, whose onmessage still calls this.onMessage
SocketOpen(which) ==
  IF which = "ws" THEN transport.ws = "open" ELSE transport.orphanOpen > 0

\* onMessage(event), with the listeners of the `message` event
OnMessage(which, frame) ==
  /\ wire.calls < MaxFrames
  /\ SocketOpen(which)
  /\ wire' = [calls |-> wire.calls + 1, on |-> which, frame |-> frame,
              emitted |-> IF FrameEmits(frame) THEN <<Detail(frame)>> ELSE <<>>,
              sent |-> IF /\ frame.json = "object"
                          /\ frame.eventType = "authenticated"
                          /\ Sends(transport)
                       THEN 1 ELSE 0,
              caught |-> FrameThrows(frame)]
  /\ IF FrameEmits(frame)
     THEN HandleDDBMessageUpTo(Detail(frame), MaxFrames)
     ELSE UNCHANGED <<processedMessageIds, deliveries, bridgeVars, dispatcherVars,
                      marks>>
  /\ UNCHANGED <<now, timerDue, cacheLog, transport, subst, override, parse>>

\* the transport with at most MaxWireSockets sockets and one reconnect
NextWire ==
  \/ /\ NextTransport
     /\ transport'.created <= MaxWireSockets
     /\ transport'.scheduled <= 1
  \/ \E which \in {"ws", "orphan"}, frame \in Frames : OnMessage(which, frame)

SpecWire == Init /\ [][NextWire]_vars

\* C32: a frame emits a `message` event exactly when its eventType is one
\* of dice/roll/fulfilled, character-sheet/character-update and
\* character-sheet/character-update/fulfilled, the detail carrying that
\* eventType; an authenticated frame emits nothing and sends one subscribe
\* message; every other frame emits and sends nothing.
C32_WireDiscrimination ==
  wire.calls > 0 =>
    LET f == wire.frame
        known == f.json = "object" /\ f.eventType \in EmittedEvents
        auth == f.json = "object" /\ f.eventType = "authenticated"
    IN /\ wire.emitted # <<>> <=> known
       /\ wire.emitted # <<>> => wire.emitted[1].eventType = f.eventType
       /\ auth => wire.sent = 1
       /\ ~auth => wire.sent = 0

\* C31: every `message` event the transport emits is routed to exactly one
\* of the message handlers DDBSyncManager registered.
C31_ExactlyOneHandler ==
  (wire.emitted # <<>> /\ ~deliveries[Len(deliveries)].duplicate) =>
    /\ deliveries[Len(deliveries)].message = wire.emitted[1]
    /\ deliveries[Len(deliveries)].handler # NoText
    /\ Cardinality({i \in 1..Len(MessageHandlers) :
                      MessageCanHandle(MessageHandlers[i], wire.emitted[1])}) = 1

(***************************************************************************)
(* SpecStrategy: RollStrategyDispatcher.dispatch with the roll handlers    *)
(* registered by DDBSyncManager, on the cache of the bridge, called with   *)
(* or without the bridge.  The run goes from the usesCache test through    *)
(* cacheRollForHandler into the handler's handle up to its first await.    *)
(* lastDispatch records the call (turn changes with every call); the       *)
(* cache entries expire in between.                                        *)
(***************************************************************************)
StrategyDispatch(rollData, bridge) ==
  LET h == FirstMatch([i \in 1..Len(RollHandlers) |->
                         RollCanHandle(RollHandlers[i], rollData)])
      key == CacheKey(rollData.entityId, rollData.action)
      uses == h # 0 /\ UsesCache(RollHandlers[h]) /\ bridge
  IN
  /\ cacheTimers[key] < MaxCached
  /\ lastDispatch' =
       [dispatcher |-> "RollStrategyDispatcher", event |-> rollData,
        bridge |-> bridge, handler |-> IF h = 0 THEN NoText ELSE RollHandlers[h],
        started |-> h # 0,
        turn |-> lastDispatch.dispatcher = "none" \/ ~lastDispatch.turn]
  /\ cachedRolls' = IF uses
                    THEN CacheRoll(cachedRolls, rollData.entityId, rollData.action,
                                   rollData)
                    ELSE cachedRolls
  /\ cacheTimers' = IF uses THEN [cacheTimers EXCEPT ![key] = @ + 1] ELSE cacheTimers
  /\ UNCHANGED <<processedMessageIds, deliveries, pendingRollCallbacks,
                 processingRolls, guardTimers, evals, nextSubId, extCount, handlers,
                 marks, sideVars>>

NextStrategy ==
  \/ \E rollData \in RollMessages, bridge \in BOOLEAN : StrategyDispatch(rollData, bridge)
  \/ \E cacheKey \in CacheKeys : CacheExpire(cacheKey) /\ UNCHANGED sideVars

SpecStrategy == Init /\ [][NextStrategy]_vars

\* a strategy dispatch whose handler's action starts in the step
StrategyStarts ==
  /\ lastDispatch' # lastDispatch
  /\ lastDispatch'.dispatcher = "RollStrategyDispatcher"
  /\ lastDispatch'.started

C34_Step ==
  StrategyStarts =>
    LET rollData == lastDispatch'.event
        key == CacheKey(rollData.entityId, rollData.action)
    IN IF lastDispatch'.handler = "AttackRollHandler" /\ lastDispatch'.bridge
       THEN /\ cachedRolls'[key] = <<rollData>>
            /\ \A k \in CacheKeys \ {key} : cachedRolls'[k] = cachedRolls[k]
       ELSE cachedRolls' = cachedRolls

\* C34: when the handler selected by the strategy dispatcher uses the
\* cache (the attack handler) and a bridge was passed, the roll is the
\* cache entry of (entityId, action) when the handler's action starts,
\* the other entries being left alone; when the handler does not use the
\* cache or no bridge was passed, the dispatch leaves the cache unchanged.
C34_CachedBeforeHandler == [][C34_Step]_vars

\* an attack roll dispatched with the bridge replaced the entry another
\* attack roll had left under the key; then one dispatched without
\* the bridge left the cache as it was
C34_Witness ==
  /\ lastDispatch.dispatcher = "RollStrategyDispatcher"
  /\ lastDispatch.handler = "AttackRollHandler"
  /\ ~lastDispatch.bridge
  /\ LET key == CacheKey(lastDispatch.event.entityId, lastDispatch.event.action)
     IN /\ cacheTimers[key] = 2
        /\ cachedRolls[key] # <<>>
        /\ cachedRolls[key] # <<lastDispatch.event>>

====
